---- MODULE Spec2Model ----
(***************************************************************************)
(* A model of the photographer's invoice application: the record store   *)
(* (lib/storage), the reminder scheduler (lib/notifications) and the UI  *)
(* handlers that drive them (Upcoming, Shoots, Invoices, Settings, Edit).  *)
(*                                                                         *)
(* Strings the code computes with are sequences of characters; a string   *)
(* the code only stores and copies is an opaque TLA+ string.  Instants    *)
(* are minutes since the epoch (UTC); a device timezone is its offset in  *)
(* minutes east of UTC (no daylight-saving changes are modelled).         *)
(***************************************************************************)
EXTENDS Integers, Sequences, FiniteSets, TLC

VARIABLES
  \* ---- invoice counter (AsyncStorage key ns_invoice_counter)
  counterStore,   \* the stored counter string, or NoValue
  cpc,            \* per caller of getNextInvoiceNumber: its position
  cread,          \* per caller: the value its getItem resolved to
  returned,       \* the invoice numbers returned so far, in return order
  c0,             \* history: the numeric counter before the first call
  overlapped,     \* history: some call started while another was in flight
  \* ---- device
  now,            \* Date.now(), minutes since the epoch
  tz,             \* the device timezone, minutes east of UTC
  \* ---- reminder scheduler (lib/notifications)
  storedSettings, \* AsyncStorage key ns_reminder_settings, or NoSettings
  pending,        \* the platform's scheduled notifications
  handles,        \* AsyncStorage keys ns_notif_<key>: key -> notification id
  lastOp,         \* history: the last operation, its arguments and result
  \* ---- record store (lib/storage)
  upcomingStore,  \* AsyncStorage key ns_upcoming_shoots: the persisted array
  shootsStore,    \* AsyncStorage key ns_shoots
  invoicesStore,  \* AsyncStorage key ns_invoices
  nextId,         \* per collection: the next id generateId() gives out
  allShoots,      \* the Upcoming screen's state: the shoots it last loaded
  lastSaved,      \* history: the last save, the fields passed and the id returned
  \* ---- Settings screen
  uiSettings,     \* the screen's reminderSettings state
  permission,     \* the notification permission the platform holds
  alert,          \* the alert on display, or "none"
  uiOp,           \* history: the last Settings handler and what it did
  \* ---- balance of an invoice
  bInvoice,       \* the money fields of the invoice on display
  bSite,          \* which code computed the balance, or "none"
  bValue,         \* the balance it computed
  \* ---- storage functions called directly
  lastCall,       \* history: the last storage call, its result and its writes
  \* ---- operations in flight
  tasks,          \* the reminder calls started, each at the await it has reached
  storeOps,       \* per caller: the storage call it is in the middle of
  \* ---- pure functions
  pIn,            \* the arguments
  pFn,            \* the function applied to them, or "none"
  pOut            \* its result

counterVars == <<counterStore, cpc, cread, returned, c0, overlapped>>
deviceVars == <<now, tz>>
reminderVars == <<storedSettings, pending, handles>>
storeVars == <<upcomingStore, shootsStore, invoicesStore, nextId, allShoots, lastSaved>>
uiVars == <<uiSettings, permission, alert, uiOp>>
balanceVars == <<bInvoice, bSite, bValue>>
callVars == <<lastCall>>
asyncVars == <<tasks, storeOps>>
pureVars == <<pIn, pFn, pOut>>

vars == <<counterVars, deviceVars, reminderVars, lastOp, storeVars, uiVars, balanceVars,
          callVars, asyncVars, pureVars>>

\* getItem of an absent key resolves to null: a value no digit string equals
NoValue == <<-1>>

-----------------------------------------------------------------------------
(* Bounds *)

MaxCalls == 3      \* calls of getNextInvoiceNumber in one behaviour
NumCallers == 2    \* callers that may be in flight at once
MaxShoots == 2     \* upcoming-shoot ids
MaxInvoices == 1   \* invoice ids
Today == 10        \* the day number (UTC) a behaviour starts on
MaxEntries == 2    \* logged-shoot ids
MaxStrLen == 3     \* characters in a money string
MaxSaves == 2      \* records saved by direct storage calls, all collections
MaxQueryLen == 2   \* characters in a search query
MaxListLen == 2    \* records in a searched list
MaxTasks == 3      \* reminder calls the Upcoming handlers start in one behaviour
MaxActions == 3    \* screen actions in one behaviour
MaxDaysOut == 3    \* days from today to the date of a reminder
MaxDaysBack == 2   \* days before today of a date asked about
MaxDaysAhead == 32 \* days after today of a date asked about

-----------------------------------------------------------------------------
(* Decimal strings: sequences of digits 0..9 *)

RECURSIVE NumToString(_)
\* Number.prototype.toString() of a non-negative integer
NumToString(n) ==
  IF n < 10 THEN <<n>> ELSE Append(NumToString(n \div 10), n % 10)

RECURSIVE ParseInt(_)
\* parseInt(s, 10) of a string of decimal digits
ParseInt(s) ==
  IF Len(s) = 0 THEN 0
  ELSE 10 * ParseInt(SubSeq(s, 1, Len(s) - 1)) + s[Len(s)]

RECURSIVE PadStart(_, _, _)
\* String.prototype.padStart(width, ch)
PadStart(s, width, ch) ==
  IF Len(s) >= width THEN s ELSE PadStart(<<ch>> \o s, width, ch)

-----------------------------------------------------------------------------
(* storage.getNextInvoiceNumber *)

InvoiceNumberWidth == 4

\* a stored string is truthy unless it is null or empty
Truthy(s) == s # NoValue /\ s # <<>>

NextCounterFromZero(counter) ==
  IF Truthy(counter) THEN ParseInt(counter) + 1 ELSE 0

\* const next = counter ? parseInt(counter, 10) + 1 : 1
NextCounter(counter) ==
  IF Truthy(counter) THEN ParseInt(counter) + 1 ELSE 1

\* next.toString().padStart(4, '0')
FormatInvoiceNumber(next) == PadStart(NumToString(next), InvoiceNumberWidth, 0)

Callers == 1..NumCallers

\* the counter values a store can hold before a behaviour starts: the key is
\* absent, or holds what an earlier call wrote
InitCounters == {1, 9, 99, 998, 9998}

CallsStarted == Len(returned) + Cardinality({c \in Callers : cpc[c] # "idle"})

\* const counter = await AsyncStorage.getItem(COUNTER_KEY)
CounterRead(c) ==
  /\ cpc[c] = "idle"
  /\ CallsStarted < MaxCalls
  /\ cread' = [cread EXCEPT ![c] = counterStore]
  /\ cpc' = [cpc EXCEPT ![c] = "read"]
  /\ overlapped' = (overlapped \/ \E d \in Callers : d # c /\ cpc[d] # "idle")
  /\ UNCHANGED <<counterStore, returned, c0>>
  /\ UNCHANGED <<deviceVars, reminderVars, lastOp, storeVars, uiVars, balanceVars, callVars, asyncVars, pureVars>>

\* a write that increments what is stored when it is made
CounterWriteOfStored(c) ==
  /\ cpc[c] = "read"
  /\ counterStore' = NumToString(NextCounter(counterStore))
  /\ cpc' = [cpc EXCEPT ![c] = "wrote"]
  /\ UNCHANGED <<cread, returned, c0, overlapped>>
  /\ UNCHANGED <<deviceVars, reminderVars, lastOp, storeVars, uiVars, balanceVars, callVars, asyncVars, pureVars>>

\* await AsyncStorage.setItem(COUNTER_KEY, next.toString())
CounterWrite(c) ==
  /\ cpc[c] = "read"
  /\ counterStore' = NumToString(NextCounter(cread[c]))
  /\ cpc' = [cpc EXCEPT ![c] = "wrote"]
  /\ UNCHANGED <<cread, returned, c0, overlapped>>
  /\ UNCHANGED <<deviceVars, reminderVars, lastOp, storeVars, uiVars, balanceVars, callVars, asyncVars, pureVars>>

\* return next.toString().padStart(4, '0')
CounterReturn(c) ==
  /\ cpc[c] = "wrote"
  /\ returned' = Append(returned, FormatInvoiceNumber(NextCounter(cread[c])))
  /\ cpc' = [cpc EXCEPT ![c] = "idle"]
  /\ cread' = [cread EXCEPT ![c] = NoValue]
  /\ UNCHANGED <<counterStore, c0, overlapped>>
  /\ UNCHANGED <<deviceVars, reminderVars, lastOp, storeVars, uiVars, balanceVars, callVars, asyncVars, pureVars>>

NextCounterSpec ==
  \E c \in Callers : CounterRead(c) \/ CounterWrite(c) \/ CounterReturn(c)

-----------------------------------------------------------------------------
(* Device clock and JavaScript Date *)

MinutesPerDay == 1440

\* a date string: empty, not a date, or YYYY-MM-DD (what DatePicker emits) for
\* day number d, or DD/MM/YYYY for day number d
EmptyDate == [k |-> "empty", d |-> 0]
BadDate == [k |-> "bad", d |-> 0]
Iso(d) == [k |-> "iso", d |-> d]
Dmy(d) == [k |-> "dmy", d |-> d]

\* a Date object: an instant, or Invalid Date (getTime() is NaN)
InvalidDate == [valid |-> FALSE, t |-> 0]
DateAt(t) == [valid |-> TRUE, t |-> t]

\* new Date(dateStr) of a picker-format string: a date-only ISO string is
\* midnight UTC of that day
NewDate(dateStr) ==
  IF dateStr.k = "iso" THEN DateAt(dateStr.d * MinutesPerDay) ELSE InvalidDate

\* the local calendar day an instant falls on
LocalDay(t, z) == (t + z) \div MinutesPerDay

\* Date.prototype.setHours(h, m, 0, 0): the same local day, at h:m local time
SetHours(t, h, m, z) == LocalDay(t, z) * MinutesPerDay + h * 60 + m - z

\* a time string: empty, or "h:mm AM|PM" (what TimePicker emits)
NoTime == [k |-> "none", h |-> 0, m |-> 0, pm |-> FALSE]
Hm(h, m, pm) == [k |-> "hm", h |-> h, m |-> m, pm |-> pm]

-----------------------------------------------------------------------------
(* lib/notifications: settings, parsing, scheduling *)

\* Platform.OS === 'web': the model is of the native (iOS, Android) builds
PlatformIsWeb == FALSE

TimingOptions == {"1h", "3h", "1d", "2d"}

ReminderSettings ==
  [shootReminders : BOOLEAN, invoiceReminders : BOOLEAN,
   reminderTiming : TimingOptions]

DEFAULT_REMINDER_SETTINGS ==
  [shootReminders |-> TRUE, invoiceReminders |-> TRUE, reminderTiming |-> "1d"]

\* the settings key is absent
NoSettings == [absent |-> TRUE]

\* getReminderSettings(): the saved settings, or the defaults
getReminderSettings(saved) ==
  IF saved # NoSettings THEN saved ELSE DEFAULT_REMINDER_SETTINGS

\* getTimingOffset(timing), in minutes
getTimingOffset(timing) ==
  CASE timing = "1h" -> 1 * 60
    [] timing = "3h" -> 3 * 60
    [] timing = "1d" -> 24 * 60
    [] timing = "2d" -> 2 * 24 * 60
    [] OTHER -> 24 * 60

\* parseDate(dateStr): DD/MM/YYYY is 09:00 local of that day, anything else
\* goes through new Date(); null (here Invalid Date) when neither parses
parseDate(dateStr, z) ==
  IF dateStr.k = "empty" THEN InvalidDate
  ELSE IF dateStr.k = "dmy"
    THEN DateAt(dateStr.d * MinutesPerDay + 9 * 60 - z)
    ELSE NewDate(dateStr)

\* parseTime(timeStr): 12 AM is hour 0, 12 PM is hour 12, other PM hours + 12
parseTime(timeStr) ==
  IF timeStr.k # "hm" THEN [valid |-> FALSE, hours |-> 0, minutes |-> 0]
  ELSE [valid |-> TRUE,
        hours |-> IF timeStr.pm /\ timeStr.h # 12 THEN timeStr.h + 12
                  ELSE IF ~timeStr.pm /\ timeStr.h = 12 THEN 0
                  ELSE timeStr.h,
        minutes |-> timeStr.m]

\* reminder keys `shoot_<id>` and `invoice_<id>`
ShootKey(id) == <<"shoot", id>>
InvoiceKey(id) == <<"invoice", id>>
NoKey == <<"none", 0>>

\* getItem of an absent ns_notif_<key>, and the null a schedule call returns
NoHandle == 0

\* the reminder state the functions below read and write
ReminderState == [pending |-> pending, handles |-> handles, ret |-> NoHandle]

\* the identifier scheduleNotificationAsync returns: one the platform has
\* never handed out, so none that is pending or still persisted as a handle
FreshId(S) ==
  LET used == {n.id : n \in S.pending} \cup {S.handles[k] : k \in DOMAIN S.handles}
  IN CHOOSE i \in 1..(Cardinality(used) + 1) :
       i \notin used /\ \A j \in 1..(i - 1) : j \in used

cancelReminderKeepHandle(key, S) ==
  LET existingId == S.handles[key]
  IN IF existingId # NoHandle
     THEN [S EXCEPT !.pending = {n \in S.pending : n.id # existingId},
                    !.ret = NoHandle]
     ELSE [S EXCEPT !.ret = NoHandle]

\* cancelReminder(key)
cancelReminder(key, S) ==
  LET existingId == S.handles[key]
  IN IF existingId # NoHandle
     THEN [pending |-> {n \in S.pending : n.id # existingId},
           handles |-> [S.handles EXCEPT ![key] = NoHandle],
           ret |-> NoHandle]
     ELSE [S EXCEPT !.ret = NoHandle]

registerWithoutCancel(key, triggerDate, S) ==
  LET id == FreshId(S)
  IN [pending |-> S.pending \cup {[id |-> id, key |-> key, trigger |-> triggerDate]},
      handles |-> [S.handles EXCEPT ![key] = id],
      ret |-> id]

\* the tail both schedule functions share: cancelReminder(key), then
\* scheduleNotificationAsync at triggerDate, then saveScheduledId(key, id)
replaceReminder(key, triggerDate, S) ==
  LET id == FreshId(S)
      S1 == cancelReminder(key, S)
  IN [pending |-> S1.pending \cup {[id |-> id, key |-> key, trigger |-> triggerDate]},
      handles |-> [S1.handles EXCEPT ![key] = id],
      ret |-> id]

\* the instant a shoot reminder is about: the parsed date, at the parsed time
\* of day when there is one
shootTarget(shootDate, shootTime, z) ==
  LET date == parseDate(shootDate, z)
      time == parseTime(shootTime)
  IN IF time.valid THEN SetHours(date.t, time.hours, time.minutes, z) ELSE date.t

\* the instant an invoice reminder is about: the event date at 08:00 local
invoiceTarget(eventDate, z) == SetHours(parseDate(eventDate, z).t, 8, 0, z)

scheduleShootReminderPastToo(shootId, shootDate, shootTime, S, saved, t, z) ==
  LET settings == getReminderSettings(saved)
      triggerDate == shootTarget(shootDate, shootTime, z)
                       - getTimingOffset(settings.reminderTiming)
  IN IF ~settings.shootReminders \/ ~parseDate(shootDate, z).valid
     THEN [S EXCEPT !.ret = NoHandle]
     ELSE replaceReminder(ShootKey(shootId), triggerDate, S)

\* scheduleShootReminder(shootId, clientName, shootDate, shootTime, ...)
scheduleShootReminder(shootId, shootDate, shootTime, S, saved, t, z) ==
  LET settings == getReminderSettings(saved)
      triggerDate == shootTarget(shootDate, shootTime, z)
                       - getTimingOffset(settings.reminderTiming)
  IN IF PlatformIsWeb THEN [S EXCEPT !.ret = NoHandle]
     ELSE IF ~settings.shootReminders THEN [S EXCEPT !.ret = NoHandle]
     ELSE IF ~parseDate(shootDate, z).valid THEN [S EXCEPT !.ret = NoHandle]
     ELSE IF triggerDate <= t THEN [S EXCEPT !.ret = NoHandle]
     ELSE replaceReminder(ShootKey(shootId), triggerDate, S)

\* scheduleInvoiceReminder(invoiceId, invoiceNumber, customerNames, eventDate, ...)
scheduleInvoiceReminder(invoiceId, eventDate, S, saved, t, z) ==
  LET settings == getReminderSettings(saved)
      triggerDate == invoiceTarget(eventDate, z)
                       - getTimingOffset(settings.reminderTiming)
  IN IF PlatformIsWeb THEN [S EXCEPT !.ret = NoHandle]
     ELSE IF ~settings.invoiceReminders THEN [S EXCEPT !.ret = NoHandle]
     ELSE IF ~parseDate(eventDate, z).valid THEN [S EXCEPT !.ret = NoHandle]
     ELSE IF triggerDate <= t THEN [S EXCEPT !.ret = NoHandle]
     ELSE replaceReminder(InvoiceKey(invoiceId), triggerDate, S)

RECURSIVE scheduleShoots(_, _, _, _, _)
\* for (const shoot of shoots) if (!shoot.completed) await scheduleShootReminder(...)
scheduleShoots(shoots, S, saved, t, z) ==
  IF shoots = <<>> THEN S
  ELSE LET shoot == Head(shoots)
           S1 == IF ~shoot.completed
                 THEN scheduleShootReminder(shoot.id, shoot.shootDate,
                                            shoot.shootTime, S, saved, t, z)
                 ELSE S
       IN scheduleShoots(Tail(shoots), S1, saved, t, z)

RECURSIVE scheduleInvoices(_, _, _, _, _)
\* for (const invoice of invoices) await scheduleInvoiceReminder(...)
scheduleInvoices(invoices, S, saved, t, z) ==
  IF invoices = <<>> THEN S
  ELSE scheduleInvoices(Tail(invoices),
         scheduleInvoiceReminder(Head(invoices).id, Head(invoices).eventDate,
                                 S, saved, t, z),
         saved, t, z)

\* Notifications.cancelAllScheduledNotificationsAsync()
cancelAllScheduledNotifications(S) == [S EXCEPT !.pending = {}]

rescheduleWithoutCancelAll(shoots, invoices, S, saved, t, z) ==
  LET settings == getReminderSettings(saved)
      S1 == IF settings.shootReminders
            THEN scheduleShoots(shoots, S, saved, t, z) ELSE S
      S2 == IF settings.invoiceReminders
            THEN scheduleInvoices(invoices, S1, saved, t, z) ELSE S1
  IN [S2 EXCEPT !.ret = NoHandle]

\* rescheduleAllReminders(shoots, invoices)
rescheduleAllReminders(shoots, invoices, S, saved, t, z) ==
  IF PlatformIsWeb THEN S
  ELSE LET S0 == cancelAllScheduledNotifications(S)
           settings == getReminderSettings(saved)
           S1 == IF settings.shootReminders
                 THEN scheduleShoots(shoots, S0, saved, t, z) ELSE S0
           S2 == IF settings.invoiceReminders
                 THEN scheduleInvoices(invoices, S1, saved, t, z) ELSE S1
       IN [S2 EXCEPT !.ret = NoHandle]

-----------------------------------------------------------------------------
(* The reminder functions called one at a time *)

ShootIds == 1..MaxShoots
InvoiceIds == 1..MaxInvoices

ReminderKeys == ({"shoot"} \X ShootIds) \cup ({"invoice"} \X InvoiceIds)

\* device timezones: UTC-5, UTC, UTC+5:30
TzOffsets == {-300, 0, 330}

\* a behaviour starts at 10:00 UTC of day Today
StartNow == Today * MinutesPerDay + 600

\* tomorrow's date gives a trigger time after now one hour ahead and, without
\* a time of day, before now one day ahead
DateInputs == {EmptyDate, BadDate, Iso(Today + 1)}

\* the settings saved in a behaviour: every flag combination, two lead times
SettingsInputs ==
  { [shootReminders |-> TRUE, invoiceReminders |-> TRUE, reminderTiming |-> "1d"],
    [shootReminders |-> FALSE, invoiceReminders |-> TRUE, reminderTiming |-> "1h"],
    [shootReminders |-> TRUE, invoiceReminders |-> FALSE, reminderTiming |-> "1d"],
    [shootReminders |-> FALSE, invoiceReminders |-> FALSE, reminderTiming |-> "1h"] }

TimeInputs == {NoTime, Hm(12, 30, TRUE)}

ShootArg(id, d, tm, done) ==
  [id |-> id, shootDate |-> d, shootTime |-> tm, completed |-> done]

InvoiceArg(id, d) == [id |-> id, eventDate |-> d]

\* the lists handed to rescheduleAllReminders
ShootListInputs ==
  { <<>>,
    <<ShootArg(1, Iso(Today + 1), Hm(12, 30, TRUE), FALSE),
      ShootArg(2, Iso(Today + 1), Hm(12, 30, TRUE), TRUE)>>,
    <<ShootArg(1, Iso(Today - 1), NoTime, FALSE),
      ShootArg(2, Iso(Today + 1), Hm(12, 30, TRUE), FALSE)>>,
    <<ShootArg(2, BadDate, NoTime, FALSE),
      ShootArg(1, Iso(Today + 1), NoTime, FALSE)>> }

InvoiceListInputs ==
  { <<>>,
    <<InvoiceArg(1, Iso(Today + 3))>>,
    <<InvoiceArg(1, Iso(Today + 1))>> }

\* a notification is scheduled under the key
HasPending(key) == \E n \in pending : n.key = key

\* the last operation: its name, the reminder key it was about, what it
\* returned, whether a notification was pending for the key when it started,
\* and whether it is a cancelReminder that repeats the one before it
Op(op, key, ret) ==
  [op |-> op, key |-> key, ret |-> ret, had |-> HasPending(key),
   again |-> (op = "cancel" /\ lastOp.op = op /\ lastOp.key = key)]

NoOp == [op |-> "none", key |-> NoKey, ret |-> NoHandle, had |-> FALSE, again |-> FALSE]

\* the effect of a reminder function on the platform and on storage
Apply(S) ==
  /\ pending' = S.pending
  /\ handles' = S.handles

ApiScheduleShoot ==
  \E id \in ShootIds, d \in DateInputs, tm \in TimeInputs :
    LET S == scheduleShootReminder(id, d, tm, ReminderState, storedSettings, now, tz)
    IN /\ Apply(S)
       /\ lastOp' = Op("scheduleShoot", ShootKey(id), S.ret)
       /\ UNCHANGED <<counterVars, deviceVars, storedSettings, storeVars, uiVars, balanceVars, callVars, asyncVars, pureVars>>

ApiScheduleInvoice ==
  \E id \in InvoiceIds, d \in DateInputs :
    LET S == scheduleInvoiceReminder(id, d, ReminderState, storedSettings, now, tz)
    IN /\ Apply(S)
       /\ lastOp' = Op("scheduleInvoice", InvoiceKey(id), S.ret)
       /\ UNCHANGED <<counterVars, deviceVars, storedSettings, storeVars, uiVars, balanceVars, callVars, asyncVars, pureVars>>

ApiCancel ==
  \E key \in ReminderKeys :
    /\ Apply(cancelReminder(key, ReminderState))
    /\ lastOp' = Op("cancel", key, NoHandle)
    /\ UNCHANGED <<counterVars, deviceVars, storedSettings, storeVars, uiVars, balanceVars, callVars, asyncVars, pureVars>>

ApiRescheduleAll ==
  \E shoots \in ShootListInputs, invoices \in InvoiceListInputs :
    /\ Apply(rescheduleAllReminders(shoots, invoices, ReminderState,
                                    storedSettings, now, tz))
    /\ lastOp' = Op("reschedule", NoKey, NoHandle)
    /\ UNCHANGED <<counterVars, deviceVars, storedSettings, storeVars, uiVars, balanceVars, callVars, asyncVars, pureVars>>

\* saveReminderSettings(settings)
ApiSaveSettings ==
  \E settings \in SettingsInputs :
    /\ storedSettings' = settings
    /\ lastOp' = Op("saveSettings", NoKey, NoHandle)
    /\ UNCHANGED <<counterVars, deviceVars, pending, handles, storeVars, uiVars, balanceVars, callVars, asyncVars, pureVars>>

\* the platform delivers the next notification that falls due: the clock is
\* at its trigger time and it is no longer scheduled
deliverDue ==
  /\ pending # {}
  /\ LET due == CHOOSE t \in {n.trigger : n \in pending} :
                  \A n \in pending : t <= n.trigger
     IN /\ now' = due
        /\ pending' = {n \in pending : n.trigger > due}

Fire ==
  /\ deliverDue
  /\ lastOp' = Op("fire", NoKey, NoHandle)
  /\ UNCHANGED <<counterVars, tz, storedSettings, handles, storeVars, uiVars, balanceVars, callVars, asyncVars, pureVars>>

NextReminder ==
  \/ ApiScheduleShoot
  \/ ApiScheduleInvoice
  \/ ApiCancel
  \/ ApiRescheduleAll
  \/ ApiSaveSettings
  \/ Fire

-----------------------------------------------------------------------------
(* lib/storage: the record collections *)

\* find(...) || null, and the result of an update that found nothing
Null == [absent |-> TRUE]

\* no storage function was called yet
NoCall == [op |-> "none"]

\* the caller is not in the middle of a storage call
NoStoreOp == [pc |-> "idle"]

\* x || d of a string x that is only stored and copied
OrElse(x, d) == IF x = "" THEN d ELSE x

\* x || d of a string x of characters
OrElseChars(x, d) == IF x = <<>> THEN d ELSE x

\* { ...rec, ...updates }
Merge(rec, updates) ==
  [f \in (DOMAIN rec) \cup (DOMAIN updates) |->
     IF f \in DOMAIN updates THEN updates[f] ELSE rec[f]]

\* the comparator (a, b) => new Date(a[field]).getTime() - new Date(b[field]).getTime(),
\* or the reverse for a descending sort; a NaN result counts as 0
compareDates(ka, kb, ascending) ==
  IF ~ka.valid \/ ~kb.valid THEN 0
  ELSE IF ascending THEN ka.t - kb.t ELSE kb.t - ka.t

\* the Date a collection is sorted by: shootDate, or the createdAt timestamp
\* (toISOString() and new Date() of it give back the instant)
sortDate(rec, field) ==
  IF field = "createdAt" THEN DateAt(rec.createdAt) ELSE NewDate(rec.shootDate)

RECURSIVE insertSorted(_, _, _, _)
insertSorted(sorted, rec, field, ascending) ==
  IF sorted = <<>> THEN <<rec>>
  ELSE IF compareDates(sortDate(Head(sorted), field), sortDate(rec, field), ascending) > 0
       THEN <<rec>> \o sorted
       ELSE <<Head(sorted)>> \o insertSorted(Tail(sorted), rec, field, ascending)

\* a sort that leaves the array as it is
unsortedRecords(recs, field, ascending) == recs

RECURSIVE sortRecords(_, _, _)
\* Array.prototype.sort with the comparator: a stable sort
sortRecords(recs, field, ascending) ==
  IF recs = <<>> THEN <<>>
  ELSE insertSorted(sortRecords(SubSeq(recs, 1, Len(recs) - 1), field, ascending),
                    recs[Len(recs)], field, ascending)

\* find(r => r.id === id) || null
findById(recs, id) ==
  LET found == SelectSeq(recs, LAMBDA r : r.id = id)
  IN IF found = <<>> THEN Null ELSE found[1]

\* the record a save builds: the fields, a generated id and the timestamps
newRecord(fields, id, t) ==
  Merge(fields, [id |-> id, createdAt |-> t, updatedAt |-> t])

\* ---- invoices
getAllInvoices(data) == sortRecords(data, "createdAt", FALSE)

getInvoice(id, data) == findById(getAllInvoices(data), id)

saveInvoice(invoice, data, id, t) ==
  LET newInvoice == newRecord(invoice, id, t)
  IN [store |-> Append(getAllInvoices(data), newInvoice), rec |-> newInvoice]

\* ---- logged shoots
normalizeShoot(s) ==
  [s EXCEPT !.clientName = OrElse(OrElse(s.clientName, s.modelName), ""),
            !.shootTime = IF s.shootTime = NoTime THEN NoTime ELSE s.shootTime,
            !.salonName = OrElse(s.salonName, ""),
            !.modelName = OrElse(s.modelName, ""),
            !.advancePaid = OrElseChars(s.advancePaid, <<>>)]

getAllShoots(data) ==
  sortRecords([i \in 1..Len(data) |-> normalizeShoot(data[i])], "shootDate", FALSE)

getShoot(id, data) == findById(getAllShoots(data), id)

saveShoot(shoot, data, id, t) ==
  LET newShoot == newRecord(shoot, id, t)
  IN [store |-> Append(getAllShoots(data), newShoot), rec |-> newShoot]

\* ---- upcoming shoots
normalizeUpcoming(s) ==
  [s EXCEPT !.salonName = OrElse(s.salonName, ""),
            !.modelName = OrElse(s.modelName, "")]

getAllUpcomingShoots(data) ==
  sortRecords([i \in 1..Len(data) |-> normalizeUpcoming(data[i])], "shootDate", TRUE)

saveUpcomingShoot(shoot, data, id, t) ==
  LET newShoot == newRecord(shoot, id, t)
  IN [store |-> Append(getAllUpcomingShoots(data), newShoot), rec |-> newShoot]

updateUpcomingShoot(id, updates, data, t) ==
  LET shoots == getAllUpcomingShoots(data)
      hits == {i \in 1..Len(shoots) : shoots[i].id = id}
  IN IF hits = {} THEN [store |-> data, rec |-> Null, wrote |-> FALSE]
     ELSE LET index == CHOOSE i \in hits : \A j \in hits : i <= j
              merged == Merge(Merge(shoots[index], updates), [updatedAt |-> t])
          IN [store |-> [shoots EXCEPT ![index] = merged], rec |-> merged,
              wrote |-> TRUE]

\* the tail of updateInvoice / updateShoot, which is that of updateUpcomingShoot:
\* records is what the getAll of the collection returned
updateIn(records, id, updates, data, t) ==
  LET hits == {i \in 1..Len(records) : records[i].id = id}
  IN IF hits = {} THEN [store |-> data, rec |-> Null, wrote |-> FALSE]
     ELSE LET index == CHOOSE i \in hits : \A j \in hits : i <= j
              merged == Merge(Merge(records[index], updates), [updatedAt |-> t])
          IN [store |-> [records EXCEPT ![index] = merged], rec |-> merged,
              wrote |-> TRUE]

updateInvoice(id, updates, data, t) ==
  updateIn(getAllInvoices(data), id, updates, data, t)

updateShoot(id, updates, data, t) ==
  updateIn(getAllShoots(data), id, updates, data, t)

\* a delete that writes the filtered list back and returns true whatever it found
deleteAlways(records, id, data) ==
  [store |-> SelectSeq(records, LAMBDA r : r.id # id), ret |-> TRUE, wrote |-> TRUE]

\* the tail of the three delete functions: records is what the getAll of the
\* collection returned
deleteFrom(records, id, data) ==
  LET filtered == SelectSeq(records, LAMBDA r : r.id # id)
  IN IF Len(filtered) = Len(records)
     THEN [store |-> data, ret |-> FALSE, wrote |-> FALSE]
     ELSE [store |-> filtered, ret |-> TRUE, wrote |-> TRUE]

deleteInvoice(id, data) == deleteFrom(getAllInvoices(data), id, data)

deleteShoot(id, data) == deleteFrom(getAllShoots(data), id, data)

deleteUpcomingShoot(id, data) == deleteFrom(getAllUpcomingShoots(data), id, data)

getUpcomingShootsFromToday(shoots, t, z) ==
  SelectSeq(shoots, LAMBDA s :
    LET d == NewDate(s.shootDate)
    IN d.valid /\ SetHours(d.t, 0, 0, z) >= SetHours(t, 0, 0, z) /\ ~s.completed)

-----------------------------------------------------------------------------
(* The Upcoming, Shoots and Invoices screens *)

EntryIds == 1..MaxEntries

\* what the Upcoming form is saved with (text fields already trimmed)
FormAnn ==
  [clientName |-> "Ann", shootDate |-> Iso(Today + 1), shootTime |-> Hm(12, 30, TRUE),
   shootLocation |-> "Kandy", salonName |-> "", modelName |-> "",
   shootType |-> "Wedding", contactNumber |-> "077",
   packagePrice |-> <<"1", "1">>, advancePaid |-> <<"1">>, notes |-> ""]

FormMia ==
  [clientName |-> "", shootDate |-> Iso(Today + 1), shootTime |-> NoTime,
   shootLocation |-> "", salonName |-> "Glow", modelName |-> "Mia",
   shootType |-> "Bridal", contactNumber |-> "",
   packagePrice |-> <<>>, advancePaid |-> <<>>, notes |-> "vip"]

FormBob ==
  [clientName |-> "Bob", shootDate |-> Iso(Today - 1), shootTime |-> NoTime,
   shootLocation |-> "Galle", salonName |-> "", modelName |-> "",
   shootType |-> "Casual", contactNumber |-> "071",
   packagePrice |-> <<"1">>, advancePaid |-> <<>>, notes |-> ""]

UpcomingInputs == {FormAnn, FormMia, FormBob}

\* what the Shoots form is saved with
ShootInputs ==
  { [clientName |-> "Ann", shootDate |-> Iso(Today), shootTime |-> Hm(12, 30, TRUE),
     shootLocation |-> "Kandy", salonName |-> "Glow", modelName |-> "Mia",
     shootType |-> "Wedding", price |-> <<"1", "1">>, advancePaid |-> <<"1">>,
     phoneNumber |-> "077", notes |-> ""],
    [clientName |-> "", shootDate |-> Iso(Today - 1), shootTime |-> NoTime,
     shootLocation |-> "", salonName |-> "", modelName |-> "Mia",
     shootType |-> "Casual", price |-> <<>>, advancePaid |-> <<>>,
     phoneNumber |-> "", notes |-> "studio"] }

\* what saveInvoice is called with
InvoiceAnn ==
  [invoiceNumber |-> FormatInvoiceNumber(1), invoiceDate |-> Iso(Today),
   customerNames |-> "Ann & Bob", eventDate |-> Iso(Today + 3),
   eventLocation |-> "Galle", phoneNumber |-> "077",
   items |-> <<[id |-> "i1", description |-> "Pen Drive", quantity |-> "---"]>>,
   fullPrice |-> <<"1", "1">>, advancePayment |-> <<"1">>]

InvoiceBare ==
  [invoiceNumber |-> FormatInvoiceNumber(2), invoiceDate |-> Iso(Today),
   customerNames |-> "", eventDate |-> EmptyDate,
   eventLocation |-> "", phoneNumber |-> "",
   items |-> <<>>,
   fullPrice |-> <<>>, advancePayment |-> <<"1", ",", "1">>]

InvoiceInputs == {InvoiceAnn, InvoiceBare}

NoSave == [kind |-> "none", id |-> 0, fields |-> Null]

\* loadShoots(): the Upcoming screen reads the collection into its state
loadShoots == allShoots' = getAllUpcomingShoots(upcomingStore')

\* Upcoming handleSave, the form opened by the + button (editingId is null)
UpcomingHandleSave ==
  \E form \in UpcomingInputs :
    /\ nextId.upcoming \in ShootIds
    /\ LET fields == Merge(form, [completed |-> FALSE])
           saved == saveUpcomingShoot(fields, upcomingStore, nextId.upcoming, now)
           S == scheduleShootReminder(saved.rec.id, form.shootDate, form.shootTime,
                                      ReminderState, storedSettings, now, tz)
       IN /\ upcomingStore' = saved.store
          /\ Apply(S)
          /\ lastSaved' = [kind |-> "upcoming", id |-> saved.rec.id, fields |-> fields]
          /\ lastOp' = Op("upcomingSave", ShootKey(saved.rec.id), S.ret)
    /\ nextId' = [nextId EXCEPT !.upcoming = @ + 1]
    /\ now' = now + 1
    /\ loadShoots
    /\ UNCHANGED <<shootsStore, invoicesStore>>
    /\ UNCHANGED <<counterVars, balanceVars, uiVars, tz, storedSettings, callVars, asyncVars, pureVars>>

\* the ShootEntry handleToggleComplete logs for a shoot it marks completed
completedEntry(shoot) ==
  [clientName |-> shoot.clientName,
   shootDate |-> shoot.shootDate,
   shootTime |-> shoot.shootTime,
   shootLocation |-> shoot.shootLocation,
   salonName |-> OrElse(shoot.salonName, ""),
   modelName |-> OrElse(shoot.modelName, ""),
   shootType |-> shoot.shootType,
   price |-> OrElseChars(shoot.packagePrice, <<"0">>),
   advancePaid |-> OrElseChars(shoot.advancePaid, <<>>),
   phoneNumber |-> OrElse(shoot.contactNumber, ""),
   notes |-> OrElse(shoot.notes, "")]

\* Upcoming handleToggleComplete(shoot), shoot being a card of the screen
HandleToggleComplete ==
  \E i \in 1..Len(allShoots) :
    LET shoot == allShoots[i]
        markingComplete == ~shoot.completed
        updated == updateUpcomingShoot(shoot.id, [completed |-> markingComplete],
                                       upcomingStore, now)
    IN /\ upcomingStore' = updated.store
       /\ IF markingComplete
          THEN /\ nextId.shoot \in EntryIds
               /\ LET fields == completedEntry(shoot)
                      saved == saveShoot(fields, shootsStore, nextId.shoot, now)
                  IN /\ Apply(cancelReminder(ShootKey(shoot.id), ReminderState))
                     /\ shootsStore' = saved.store
                     /\ lastSaved' = [kind |-> "shoot", id |-> saved.rec.id,
                                      fields |-> fields]
                     /\ lastOp' = Op("markComplete", ShootKey(shoot.id), saved.rec.id)
               /\ nextId' = [nextId EXCEPT !.shoot = @ + 1]
               /\ now' = now + 1
          ELSE /\ LET S == scheduleShootReminder(shoot.id, shoot.shootDate,
                                                 shoot.shootTime, ReminderState,
                                                 storedSettings, now, tz)
                  IN /\ Apply(S)
                     /\ lastOp' = Op("markIncomplete", ShootKey(shoot.id), S.ret)
               /\ UNCHANGED <<shootsStore, lastSaved, nextId, now>>
       /\ loadShoots
       /\ UNCHANGED invoicesStore
       /\ UNCHANGED <<counterVars, balanceVars, uiVars, tz, storedSettings, callVars, asyncVars, pureVars>>

\* Shoots handleSave, the form opened by the + button (editingId is null)
ShootsHandleSave ==
  \E form \in ShootInputs :
    /\ nextId.shoot \in EntryIds
    /\ LET saved == saveShoot(form, shootsStore, nextId.shoot, now)
       IN /\ shootsStore' = saved.store
          /\ lastSaved' = [kind |-> "shoot", id |-> saved.rec.id, fields |-> form]
          /\ lastOp' = Op("shootSave", NoKey, saved.rec.id)
    /\ nextId' = [nextId EXCEPT !.shoot = @ + 1]
    /\ now' = now + 1
    /\ UNCHANGED <<upcomingStore, invoicesStore, allShoots>>
    /\ UNCHANGED <<counterVars, balanceVars, uiVars, tz, reminderVars, callVars, asyncVars, pureVars>>

\* saveInvoice(invoice)
ApiSaveInvoice ==
  \E invoice \in InvoiceInputs :
    /\ nextId.invoice \in InvoiceIds
    /\ LET saved == saveInvoice(invoice, invoicesStore, nextId.invoice, now)
       IN /\ invoicesStore' = saved.store
          /\ lastSaved' = [kind |-> "invoice", id |-> saved.rec.id, fields |-> invoice]
          /\ lastOp' = Op("invoiceSave", InvoiceKey(saved.rec.id), saved.rec.id)
    /\ nextId' = [nextId EXCEPT !.invoice = @ + 1]
    /\ now' = now + 1
    /\ UNCHANGED <<upcomingStore, shootsStore, allShoots>>
    /\ UNCHANGED <<counterVars, balanceVars, uiVars, tz, reminderVars, callVars, asyncVars, pureVars>>

NextStore ==
  \/ UpcomingHandleSave
  \/ HandleToggleComplete
  \/ ShootsHandleSave
  \/ ApiSaveInvoice

-----------------------------------------------------------------------------
(* The Settings screen: reminder switches *)

\* setupNotifications(): the permission already held, or else what the user
\* answers to the request; true when the outcome is "granted"
setupNotifications(existingStatus, answer) ==
  LET finalStatus == IF existingStatus # "granted" THEN answer ELSE existingStatus
  IN [status |-> finalStatus,
      granted |-> ~PlatformIsWeb /\ finalStatus = "granted"]

NoUiOp == [op |-> "none", val |-> FALSE, granted |-> FALSE, rescheduled |-> FALSE]

\* handleReschedule(): reads both collections and rebuilds every reminder
\* under the settings just saved
handleReschedule(settings) ==
  Apply(rescheduleAllReminders(getAllUpcomingShoots(upcomingStore),
                               getAllInvoices(invoicesStore),
                               ReminderState, settings, now, tz))

\* the tail of the three handlers: set the state, save, reschedule
commitSettings(updated) ==
  /\ uiSettings' = updated
  /\ storedSettings' = updated
  /\ IF PlatformIsWeb THEN UNCHANGED <<pending, handles>>
     ELSE handleReschedule(updated)

\* a toggle handler that goes on after the permission was refused
toggleIgnoringRefusal(op, updated, val, answer) ==
  LET asked == val /\ ~PlatformIsWeb
      setup == setupNotifications(permission, answer)
  IN /\ permission' = IF asked THEN setup.status ELSE permission
     /\ commitSettings(updated)
     /\ alert' = alert
     /\ uiOp' = [op |-> op, val |-> val, granted |-> ~asked \/ setup.granted,
                 rescheduled |-> TRUE]

\* handleToggleShootReminders / handleToggleInvoiceReminders, which differ in
\* the flag they set: updated is the settings with that flag set to val
toggleReminders(op, updated, val, answer) ==
  LET asked == val /\ ~PlatformIsWeb
      setup == setupNotifications(permission, answer)
  IN /\ permission' = IF asked THEN setup.status ELSE permission
     /\ IF asked /\ ~setup.granted
        THEN /\ alert' = "Permission Needed"
             /\ uiOp' = [op |-> op, val |-> val, granted |-> FALSE,
                         rescheduled |-> FALSE]
             /\ UNCHANGED <<uiSettings, storedSettings, pending, handles>>
        ELSE /\ commitSettings(updated)
             /\ alert' = alert
             /\ uiOp' = [op |-> op, val |-> val, granted |-> TRUE,
                         rescheduled |-> ~PlatformIsWeb]

HandleToggleShootReminders ==
  \E val \in BOOLEAN, answer \in {"granted", "denied"} :
    /\ toggleReminders("toggleShoot", [uiSettings EXCEPT !.shootReminders = val],
                       val, answer)
    /\ lastOp' = Op("settings", NoKey, NoHandle)
    /\ UNCHANGED <<counterVars, balanceVars, storeVars, deviceVars, callVars, asyncVars, pureVars>>

HandleToggleInvoiceReminders ==
  \E val \in BOOLEAN, answer \in {"granted", "denied"} :
    /\ toggleReminders("toggleInvoice", [uiSettings EXCEPT !.invoiceReminders = val],
                       val, answer)
    /\ lastOp' = Op("settings", NoKey, NoHandle)
    /\ UNCHANGED <<counterVars, balanceVars, storeVars, deviceVars, callVars, asyncVars, pureVars>>

HandleTimingChange ==
  \E timing \in TimingOptions :
    /\ commitSettings([uiSettings EXCEPT !.reminderTiming = timing])
    /\ uiOp' = [op |-> "timing", val |-> FALSE, granted |-> FALSE,
                rescheduled |-> ~PlatformIsWeb]
    /\ lastOp' = Op("settings", NoKey, NoHandle)
    /\ UNCHANGED <<alert, permission>>
    /\ UNCHANGED <<counterVars, balanceVars, storeVars, deviceVars, callVars, asyncVars, pureVars>>

\* the user changes the notification permission in the device settings
PermissionChanged ==
  \E status \in {"granted", "denied"} :
    /\ status # permission
    /\ permission' = status
    /\ uiOp' = [NoUiOp EXCEPT !.op = "permission"]
    /\ UNCHANGED <<uiSettings, alert, lastOp>>
    /\ UNCHANGED <<counterVars, balanceVars, storeVars, deviceVars, reminderVars, callVars, asyncVars, pureVars>>

\* the user dismisses the alert
DismissAlert ==
  /\ alert # "none"
  /\ alert' = "none"
  /\ uiOp' = [NoUiOp EXCEPT !.op = "dismiss"]
  /\ UNCHANGED <<uiSettings, permission, lastOp>>
  /\ UNCHANGED <<counterVars, balanceVars, storeVars, deviceVars, reminderVars, callVars, asyncVars, pureVars>>

NextSettings ==
  \/ HandleToggleShootReminders
  \/ HandleToggleInvoiceReminders
  \/ HandleTimingChange
  \/ PermissionChanged
  \/ DismissAlert

-----------------------------------------------------------------------------
(* Money strings and the invoice balance *)

\* the characters a money field is typed from: a digit, the decimal point,
\* the thousands separator and the minus sign
MoneyChars == {"1", ".", ",", "-"}

DigitChars == {"0", "1", "2", "3", "4", "5", "6", "7", "8", "9"}

DigitOf(c) ==
  CASE c = "0" -> 0 [] c = "1" -> 1 [] c = "2" -> 2 [] c = "3" -> 3
    [] c = "4" -> 4 [] c = "5" -> 5 [] c = "6" -> 6 [] c = "7" -> 7
    [] c = "8" -> 8 [] c = "9" -> 9

RECURSIVE Pow10(_)
Pow10(n) == IF n = 0 THEN 1 ELSE 10 * Pow10(n - 1)

\* numbers are decimal fixed point: a value v stands for v / MoneyScale, which
\* holds every digit a string of MaxStrLen characters can carry
MoneyScale == Pow10(MaxStrLen)

\* a JavaScript number: NaN, or a value
NaN == [nan |-> TRUE, v |-> 0]
Num(v) == [nan |-> FALSE, v |-> v]

RECURSIVE DigitRun(_)
\* the longest prefix of s made of decimal digits
DigitRun(s) ==
  IF s = <<>> \/ Head(s) \notin DigitChars THEN <<>>
  ELSE <<Head(s)>> \o DigitRun(Tail(s))

RECURSIVE DigitsToInt(_)
DigitsToInt(ds) ==
  IF ds = <<>> THEN 0
  ELSE DigitsToInt(SubSeq(ds, 1, Len(ds) - 1)) * 10 + DigitOf(ds[Len(ds)])

\* parseFloat(s) of a string without whitespace, exponent or "Infinity": the
\* value of the longest prefix that is a decimal literal (an optional sign,
\* digits, an optional point and digits), NaN when no prefix is one
parseFloat(s) ==
  LET signed == s # <<>> /\ Head(s) \in {"-", "+"}
      body == IF signed THEN Tail(s) ELSE s
      ip == DigitRun(body)
      rest == SubSeq(body, Len(ip) + 1, Len(body))
      fp == IF rest # <<>> /\ Head(rest) = "." THEN DigitRun(Tail(rest)) ELSE <<>>
      mag == DigitsToInt(ip) * MoneyScale
             + DigitsToInt(fp) * Pow10(MaxStrLen - Len(fp))
  IN IF ip = <<>> /\ fp = <<>> THEN NaN
     ELSE Num(IF signed /\ Head(s) = "-" THEN -mag ELSE mag)

\* x || 0 of a number x: NaN and zero are falsy
OrZero(x) == IF x.nan \/ x.v = 0 THEN 0 ELSE x.v

\* storage.getTotal(invoice)
getTotal(invoice) == OrZero(parseFloat(invoice.fullPrice))

\* storage.calculateBalance(total, advance)
calculateBalance(total, advance) ==
  LET adv == OrZero(parseFloat(advance))
  IN total - adv

\* generateInvoiceHTML: the balance the document shows
pdfBalance(invoice) ==
  LET total == getTotal(invoice)
  IN calculateBalance(total, invoice.advancePayment)

\* InvoicesTab renderInvoiceCard (and each term of totalBalance)
listBalance(item) ==
  LET total == getTotal(item)
      advance == OrZero(parseFloat(item.advancePayment))
  IN total - advance

\* EditInvoiceScreen: loadInvoice copies the fields into the form state
\* (fullPrice || '' of a string is the string), the render computes the balance
editBalance(invoice) ==
  LET fullPrice == IF invoice.fullPrice = <<>> THEN <<>> ELSE invoice.fullPrice
      advancePayment == invoice.advancePayment
      total == OrZero(parseFloat(fullPrice))
      advance == OrZero(parseFloat(advancePayment))
  IN total - advance

RECURSIVE StringsUpTo(_)
\* the money strings of at most n characters
StringsUpTo(n) ==
  IF n = 0 THEN {<<>>}
  ELSE LET shorter == StringsUpTo(n - 1)
       IN shorter \cup {Append(s, c) : s \in shorter, c \in MoneyChars}

MoneyStrings == StringsUpTo(MaxStrLen)

\* the document generator computes the balance of the invoice
ComputePdfBalance ==
  /\ bSite = "none"
  /\ bSite' = "pdf"
  /\ bValue' = pdfBalance(bInvoice)
  /\ UNCHANGED <<bInvoice, counterVars, deviceVars, reminderVars, storeVars, uiVars, lastOp, callVars, asyncVars, pureVars>>

\* the invoice list renders the card of the invoice
ComputeListBalance ==
  /\ bSite = "none"
  /\ bSite' = "list"
  /\ bValue' = listBalance(bInvoice)
  /\ UNCHANGED <<bInvoice, counterVars, deviceVars, reminderVars, storeVars, uiVars, lastOp, callVars, asyncVars, pureVars>>

\* the edit screen loads the invoice and renders its balance
ComputeEditBalance ==
  /\ bSite = "none"
  /\ bSite' = "edit"
  /\ bValue' = editBalance(bInvoice)
  /\ UNCHANGED <<bInvoice, counterVars, deviceVars, reminderVars, storeVars, uiVars, lastOp, callVars, asyncVars, pureVars>>

NextBalance ==
  \/ ComputePdfBalance
  \/ ComputeListBalance
  \/ ComputeEditBalance

-----------------------------------------------------------------------------
(* The storage functions called one at a time *)

RecordKinds == {"invoice", "shoot", "upcoming"}

\* the ids a call may name: those given out, and one more
CallIds == 1..(MaxSaves + 1)

\* the partial records the update functions are called with
InvoiceUpdates == {[eventDate |-> Iso(Today + 5)]}
ShootUpdates == {[shootDate |-> Iso(Today - 2)]}
UpcomingUpdates == {[shootDate |-> Iso(Today + 3)], [completed |-> TRUE]}

\* the records saved so far, in all collections
SavesDone == (nextId.invoice - 1) + (nextId.shoot - 1) + (nextId.upcoming - 1)

\* the persisted array of a collection
Collection(kind, invoices, shoots, upcoming) ==
  CASE kind = "invoice" -> invoices
    [] kind = "shoot" -> shoots
    [] kind = "upcoming" -> upcoming

\* what the getAll function of a collection returns
getAll(kind, data) ==
  CASE kind = "invoice" -> getAllInvoices(data)
    [] kind = "shoot" -> getAllShoots(data)
    [] kind = "upcoming" -> getAllUpcomingShoots(data)

\* the save of a kind, with nothing else of the application running
Saved(kind, result) ==
  /\ SavesDone < MaxSaves
  /\ nextId' = [nextId EXCEPT ![kind] = @ + 1]
  /\ now' = now + 1
  /\ lastCall' = [op |-> "save", kind |-> kind, id |-> result.rec.id,
                  ret |-> result.rec, wrote |-> TRUE]
  /\ UNCHANGED <<allShoots, lastSaved, tz, lastOp>>
  /\ UNCHANGED <<counterVars, reminderVars, uiVars, balanceVars, asyncVars, pureVars>>

CallSaveInvoice ==
  \E invoice \in InvoiceInputs :
    LET result == saveInvoice(invoice, invoicesStore, nextId.invoice, now)
    IN /\ invoicesStore' = result.store
       /\ Saved("invoice", result)
       /\ UNCHANGED <<shootsStore, upcomingStore>>

CallSaveShoot ==
  \E shoot \in ShootInputs :
    LET result == saveShoot(shoot, shootsStore, nextId.shoot, now)
    IN /\ shootsStore' = result.store
       /\ Saved("shoot", result)
       /\ UNCHANGED <<invoicesStore, upcomingStore>>

CallSaveUpcomingShoot ==
  \E form \in UpcomingInputs :
    LET result == saveUpcomingShoot(Merge(form, [completed |-> FALSE]),
                                    upcomingStore, nextId.upcoming, now)
    IN /\ upcomingStore' = result.store
       /\ Saved("upcoming", result)
       /\ UNCHANGED <<invoicesStore, shootsStore>>

\* an update or a delete of a kind, with nothing else of the application running
Called(op, kind, id, result, ret) ==
  /\ lastCall' = [op |-> op, kind |-> kind, id |-> id, ret |-> ret,
                  wrote |-> result.wrote]
  /\ UNCHANGED <<nextId, allShoots, lastSaved, deviceVars, lastOp>>
  /\ UNCHANGED <<counterVars, reminderVars, uiVars, balanceVars, asyncVars, pureVars>>

CallUpdateInvoice ==
  \E id \in CallIds, updates \in InvoiceUpdates :
    LET result == updateInvoice(id, updates, invoicesStore, now)
    IN /\ invoicesStore' = result.store
       /\ Called("update", "invoice", id, result, result.rec)
       /\ UNCHANGED <<shootsStore, upcomingStore>>

CallUpdateShoot ==
  \E id \in CallIds, updates \in ShootUpdates :
    LET result == updateShoot(id, updates, shootsStore, now)
    IN /\ shootsStore' = result.store
       /\ Called("update", "shoot", id, result, result.rec)
       /\ UNCHANGED <<invoicesStore, upcomingStore>>

CallUpdateUpcomingShoot ==
  \E id \in CallIds, updates \in UpcomingUpdates :
    LET result == updateUpcomingShoot(id, updates, upcomingStore, now)
    IN /\ upcomingStore' = result.store
       /\ Called("update", "upcoming", id, result, result.rec)
       /\ UNCHANGED <<invoicesStore, shootsStore>>

CallDeleteInvoice ==
  \E id \in CallIds :
    LET result == deleteInvoice(id, invoicesStore)
    IN /\ invoicesStore' = result.store
       /\ Called("delete", "invoice", id, result, result.ret)
       /\ UNCHANGED <<shootsStore, upcomingStore>>

CallDeleteShoot ==
  \E id \in CallIds :
    LET result == deleteShoot(id, shootsStore)
    IN /\ shootsStore' = result.store
       /\ Called("delete", "shoot", id, result, result.ret)
       /\ UNCHANGED <<invoicesStore, upcomingStore>>

CallDeleteUpcomingShoot ==
  \E id \in CallIds :
    LET result == deleteUpcomingShoot(id, upcomingStore)
    IN /\ upcomingStore' = result.store
       /\ Called("delete", "upcoming", id, result, result.ret)
       /\ UNCHANGED <<invoicesStore, shootsStore>>

NextCrud ==
  \/ CallSaveInvoice
  \/ CallSaveShoot
  \/ CallSaveUpcomingShoot
  \/ CallUpdateInvoice
  \/ CallUpdateShoot
  \/ CallUpdateUpcomingShoot
  \/ CallDeleteInvoice
  \/ CallDeleteShoot
  \/ CallDeleteUpcomingShoot

-----------------------------------------------------------------------------
(* storage.searchShoots / searchInvoices, on strings of characters *)

\* the characters of the text fields and of the query
TextChars == {"a", "b", "B", "7", " "}

\* String.prototype.toLowerCase, character by character
lowerChar(c) == CASE c = "B" -> "b" [] c = "A" -> "a" [] OTHER -> c

toLowerCase(s) == [i \in 1..Len(s) |-> lowerChar(s[i])]

RECURSIVE trimStart(_)
trimStart(s) == IF s # <<>> /\ Head(s) = " " THEN trimStart(Tail(s)) ELSE s

RECURSIVE trimEnd(_)
trimEnd(s) ==
  IF s # <<>> /\ s[Len(s)] = " " THEN trimEnd(SubSeq(s, 1, Len(s) - 1)) ELSE s

\* String.prototype.trim
trim(s) == trimEnd(trimStart(s))

startsWith(s, q) == Len(q) <= Len(s) /\ SubSeq(s, 1, Len(q)) = q

RECURSIVE includes(_, _)
\* String.prototype.includes
includes(s, q) ==
  \/ startsWith(s, q)
  \/ (s # <<>> /\ includes(Tail(s), q))

searchShoots(shoots, query) ==
  LET q == trim(toLowerCase(query))
  IN IF q = <<>> THEN shoots
     ELSE SelectSeq(shoots, LAMBDA s :
            \/ includes(toLowerCase(s.clientName), q)
            \/ includes(toLowerCase(s.shootLocation), q)
            \/ includes(toLowerCase(s.salonName), q)
            \/ includes(toLowerCase(s.modelName), q)
            \/ includes(toLowerCase(s.shootType), q)
            \/ includes(toLowerCase(s.notes), q))

searchInvoices(invoices, query) ==
  LET q == trim(toLowerCase(query))
  IN IF q = <<>> THEN invoices
     ELSE SelectSeq(invoices, LAMBDA inv :
            \/ includes(toLowerCase(inv.customerNames), q)
            \/ includes(toLowerCase(inv.invoiceNumber), q)
            \/ includes(toLowerCase(inv.eventLocation), q)
            \/ includes(toLowerCase(inv.phoneNumber), q))

\* a logged shoot, its text fields only
ShootText(id, clientName, shootLocation, salonName, modelName, shootType, phoneNumber, notes) ==
  [id |-> id, clientName |-> clientName, shootLocation |-> shootLocation,
   salonName |-> salonName, modelName |-> modelName, shootType |-> shootType,
   phoneNumber |-> phoneNumber, notes |-> notes]

\* an invoice, its text fields only
InvoiceText(id, customerNames, invoiceNumber, eventLocation, phoneNumber) ==
  [id |-> id, customerNames |-> customerNames, invoiceNumber |-> invoiceNumber,
   eventLocation |-> eventLocation, phoneNumber |-> phoneNumber]

\* the shoots searched: each has its text in other fields
SearchedShoots ==
  { ShootText(1, <<"B", "a">>, <<>>, <<>>, <<>>, <<"b">>, <<>>, <<>>),
    ShootText(2, <<>>, <<"a", " ", "b">>, <<>>, <<>>, <<"b">>, <<"7", "7">>, <<>>),
    ShootText(3, <<>>, <<>>, <<"a", "a">>, <<"B", "B">>, <<"B">>, <<>>, <<"7", "a">>),
    ShootText(4, <<"a">>, <<>>, <<>>, <<>>, <<"a">>, <<"7", " ", "7">>, <<>>) }

\* the invoices searched
SearchedInvoices ==
  { InvoiceText(1, <<"B", "a">>, <<"7">>, <<>>, <<>>),
    InvoiceText(2, <<>>, <<"7", "7">>, <<"a", " ", "b">>, <<>>),
    InvoiceText(3, <<"a">>, <<"b">>, <<>>, <<"7", " ", "7">>) }

RECURSIVE ListsUpTo(_, _)
\* the lists of at most n elements of S
ListsUpTo(S, n) ==
  IF n = 0 THEN {<<>>}
  ELSE LET shorter == ListsUpTo(S, n - 1)
       IN shorter \cup {Append(l, x) : l \in shorter, x \in S}

SearchQueries == ListsUpTo(TextChars, MaxQueryLen)

SearchInputs ==
  [kind : {"shoot"}, list : ListsUpTo(SearchedShoots, MaxListLen), query : SearchQueries]
    \cup
  [kind : {"invoice"}, list : ListsUpTo(SearchedInvoices, MaxListLen), query : SearchQueries]

ApplySearchShoots ==
  /\ pFn = "none"
  /\ pIn.kind = "shoot"
  /\ pFn' = "searchShoots"
  /\ pOut' = searchShoots(pIn.list, pIn.query)
  /\ UNCHANGED <<pIn, counterVars, deviceVars, reminderVars, lastOp, storeVars, uiVars,
                 balanceVars, callVars, asyncVars>>

ApplySearchInvoices ==
  /\ pFn = "none"
  /\ pIn.kind = "invoice"
  /\ pFn' = "searchInvoices"
  /\ pOut' = searchInvoices(pIn.list, pIn.query)
  /\ UNCHANGED <<pIn, counterVars, deviceVars, reminderVars, lastOp, storeVars, uiVars,
                 balanceVars, callVars, asyncVars>>

NextSearch ==
  \/ ApplySearchShoots
  \/ ApplySearchInvoices

-----------------------------------------------------------------------------
(* storage.getDaysUntil / getDaysUntilLabel *)

\* Math.ceil(a / b) of integers, b > 0
ceilDiv(a, b) == -((-a) \div b)

\* getDaysUntil(dateStr) at instant t on a device at offset z: NaN for a string
\* that is not a date
getDaysUntil(dateStr, t, z) ==
  LET today == SetHours(t, 0, 0, z)
      target == NewDate(dateStr)
  IN IF ~target.valid THEN NaN
     ELSE Num(ceilDiv(SetHours(target.t, 0, 0, z) - today, MinutesPerDay))

\* `${n} ${unit}`
countLabel(n, unit) == ToString(n) \o " " \o unit

\* a label that counts in weeks from the second day on
labelInWeeks(days) ==
  IF days.nan THEN "NaN months"
  ELSE IF days.v < 0 THEN "Overdue"
  ELSE IF days.v = 0 THEN "Today"
  ELSE IF days.v = 1 THEN "Tomorrow"
  ELSE IF days.v <= 30 THEN countLabel(ceilDiv(days.v, 7), "weeks")
  ELSE countLabel(ceilDiv(days.v, 30), "months")

\* the label of a day count: every comparison with NaN is false
labelOf(days) ==
  IF days.nan THEN "NaN months"
  ELSE IF days.v < 0 THEN "Overdue"
  ELSE IF days.v = 0 THEN "Today"
  ELSE IF days.v = 1 THEN "Tomorrow"
  ELSE IF days.v <= 7 THEN countLabel(days.v, "days")
  ELSE IF days.v <= 30 THEN countLabel(ceilDiv(days.v, 7), "weeks")
  ELSE countLabel(ceilDiv(days.v, 30), "months")

getDaysUntilLabel(dateStr, t, z) == labelOf(getDaysUntil(dateStr, t, z))

\* the times of day (UTC) a call is made at
ClockInputs == {0, 600, 1380}

\* the dates asked about: from MaxDaysBack days ago to MaxDaysAhead days ahead
DayInputs == {Iso(Today + d) : d \in (-MaxDaysBack)..MaxDaysAhead}

ApplyGetDaysUntil ==
  /\ pFn = "none"
  /\ pFn' = "getDaysUntil"
  /\ pOut' = getDaysUntil(pIn, now, tz)
  /\ UNCHANGED <<pIn, counterVars, deviceVars, reminderVars, lastOp, storeVars, uiVars,
                 balanceVars, callVars, asyncVars>>

ApplyGetDaysUntilLabel ==
  /\ pFn = "none"
  /\ pFn' = "getDaysUntilLabel"
  /\ pOut' = [days |-> getDaysUntil(pIn, now, tz),
              label |-> getDaysUntilLabel(pIn, now, tz)]
  /\ UNCHANGED <<pIn, counterVars, deviceVars, reminderVars, lastOp, storeVars, uiVars,
                 balanceVars, callVars, asyncVars>>

NextDays ==
  \/ ApplyGetDaysUntil
  \/ ApplyGetDaysUntilLabel

-----------------------------------------------------------------------------
(* invoice-html.generateInvoiceHTML *)

\* formatCurrency(amount): the amount rounded to two decimals (half away from
\* zero), as sign, whole part and hundredths
formatCurrency(amount) ==
  LET mag == IF amount < 0 THEN -amount ELSE amount
      hundredths == (mag * 100 + MoneyScale \div 2) \div MoneyScale
  IN [negative |-> amount < 0, whole |-> hundredths \div 100, cents |-> hundredths % 100]

\* the rows with every quantity as stored
itemRowsAsStored(items) ==
  [i \in 1..Len(items) |-> [description |-> items[i].description, qty |-> items[i].quantity]]

\* invoice.items.map(item => ({ description, qty: item.quantity || '---' }))
itemRows(items) ==
  [i \in 1..Len(items) |->
     [description |-> items[i].description, qty |-> OrElse(items[i].quantity, "---")]]

\* tableRows(items, borderColor): one table row per item
tableRows(items, borderColor) ==
  [i \in 1..Len(items) |->
     [description |-> items[i].description, qty |-> items[i].qty, border |-> borderColor]]

\* a generated document: its layout, the three amounts and the item table
generateElegant(total, advance, balance, items) ==
  [layout |-> "elegant", totalLabel |-> "Total", advanceLabel |-> "Advance",
   balanceLabel |-> "Balance", total |-> formatCurrency(total),
   advance |-> formatCurrency(advance), balance |-> formatCurrency(balance),
   rows |-> tableRows(items, "#f0ece6")]

generateModern(total, advance, balance, items) ==
  [layout |-> "modern", totalLabel |-> "Total", advanceLabel |-> "Advance Paid",
   balanceLabel |-> "Balance Due", total |-> formatCurrency(total),
   advance |-> formatCurrency(advance), balance |-> formatCurrency(balance),
   rows |-> tableRows(items, "#f0f0f0")]

generateMinimal(total, advance, balance, items) ==
  [layout |-> "minimal", totalLabel |-> "Total", advanceLabel |-> "Advance",
   balanceLabel |-> "Balance", total |-> formatCurrency(total),
   advance |-> formatCurrency(advance), balance |-> formatCurrency(balance),
   rows |-> tableRows(items, "#f5f5f5")]

generateBold(total, advance, balance, items) ==
  [layout |-> "bold", totalLabel |-> "Total", advanceLabel |-> "Advance Paid",
   balanceLabel |-> "Balance Due", total |-> formatCurrency(total),
   advance |-> formatCurrency(advance), balance |-> formatCurrency(balance),
   rows |-> tableRows(items, "#f0ece6")]

generateClassic(total, advance, balance, items) ==
  [layout |-> "classic", totalLabel |-> "Total", advanceLabel |-> "Advance",
   balanceLabel |-> "Balance", total |-> formatCurrency(total),
   advance |-> formatCurrency(advance), balance |-> formatCurrency(balance),
   rows |-> tableRows(items, "#f0ece6")]

generateInvoiceHTML(invoice, style) ==
  LET total == getTotal(invoice)
      advance == OrZero(parseFloat(invoice.advancePayment))
      balance == calculateBalance(total, invoice.advancePayment)
      rows == itemRows(invoice.items)
  IN CASE style = "modern" -> generateModern(total, advance, balance, rows)
       [] style = "minimal" -> generateMinimal(total, advance, balance, rows)
       [] style = "bold" -> generateBold(total, advance, balance, rows)
       [] style = "classic" -> generateClassic(total, advance, balance, rows)
       [] OTHER -> generateElegant(total, advance, balance, rows)

InvoiceStyles == {"elegant", "modern", "minimal", "bold", "classic"}

\* the styles asked for: the five variants and one that is none of them
StyleInputs == InvoiceStyles \cup {"vintage"}

\* line items with a quantity, without one, and with the placeholder typed in
ItemInputs == [description : {"Album"}, quantity : {"", "2", "---"}]

\* money fields of at most two characters
DocumentMoneyInputs == {s \in MoneyStrings : Len(s) <= 2}

DocumentInputs ==
  [invoice : [fullPrice : DocumentMoneyInputs, advancePayment : DocumentMoneyInputs,
              items : ListsUpTo(ItemInputs, MaxListLen)],
   style : StyleInputs]

ApplyGenerateInvoiceHTML ==
  /\ pFn = "none"
  /\ pFn' = "generateInvoiceHTML"
  /\ pOut' = generateInvoiceHTML(pIn.invoice, pIn.style)
  /\ UNCHANGED <<pIn, counterVars, deviceVars, reminderVars, lastOp, storeVars, uiVars,
                 balanceVars, callVars, asyncVars>>

NextHtml ==
  \/ ApplyGenerateInvoiceHTML

-----------------------------------------------------------------------------
(* The Upcoming screen with its reminder calls in flight *)

\* The handlers of the screen call scheduleShootReminder and cancelReminder
\* without awaiting them: the call runs up to its first await inside the
\* handler and goes on, one await at a time, while later handlers run.  The
\* awaited storage part of a handler is one step here.

\* a reminder call in flight: the function, its arguments, the await it is at
\* and its local variables
ReminderCall(fn, key, shootDate, shootTime, pc) ==
  [fn |-> fn, key |-> key, shootDate |-> shootDate, shootTime |-> shootTime, pc |-> pc,
   existingId |-> NoHandle, triggerDate |-> 0, id |-> NoHandle]

\* scheduleShootReminder(...) called and not awaited: it stops at
\* await getReminderSettings()
spawnSchedule(shootId, shootDate, shootTime) ==
  Append(tasks, ReminderCall("schedule", ShootKey(shootId), shootDate, shootTime, "settings"))

\* cancelReminder(key) called and not awaited: it stops at await getItem
spawnCancel(shootId) ==
  Append(tasks, ReminderCall("cancel", ShootKey(shootId), EmptyDate, NoTime, "getItem"))

\* the identifier scheduleNotificationAsync returns: one never handed out before
newNotificationId ==
  1 + Cardinality({i \in 1..Len(tasks) : tasks[i].id # NoHandle})

\* where a call goes on after its cancelReminder part
afterCancel(task) == IF task.fn = "schedule" THEN "schedule" ELSE "done"

\* what the Upcoming form is saved with: a shoot tomorrow, a shoot yesterday
RaceInputs == {FormAnn, FormBob}

screenIdle ==
  UNCHANGED <<counterVars, balanceVars, uiVars, tz, reminderVars, callVars, storeOps,
              pureVars, lastOp, invoicesStore>>

\* handleSave of a new shoot
RaceHandleSave ==
  \E form \in RaceInputs :
    /\ Len(tasks) < MaxTasks
    /\ nextId.upcoming \in ShootIds
    /\ LET fields == Merge(form, [completed |-> FALSE])
           saved == saveUpcomingShoot(fields, upcomingStore, nextId.upcoming, now)
       IN /\ upcomingStore' = saved.store
          /\ tasks' = spawnSchedule(saved.rec.id, form.shootDate, form.shootTime)
          /\ lastSaved' = [kind |-> "upcoming", id |-> saved.rec.id, fields |-> fields]
    /\ nextId' = [nextId EXCEPT !.upcoming = @ + 1]
    /\ now' = now + 1
    /\ loadShoots
    /\ UNCHANGED shootsStore
    /\ screenIdle

\* handleSave of the form a card opened (editingId is the card's id)
RaceHandleEdit ==
  \E i \in 1..Len(allShoots), form \in RaceInputs :
    /\ Len(tasks) < MaxTasks
    /\ LET editingId == allShoots[i].id
           updated == updateUpcomingShoot(editingId, form, upcomingStore, now)
       IN /\ upcomingStore' = updated.store
          /\ tasks' = spawnSchedule(editingId, form.shootDate, form.shootTime)
    /\ now' = now + 1
    /\ loadShoots
    /\ UNCHANGED <<shootsStore, nextId, lastSaved>>
    /\ screenIdle

\* handleToggleComplete(shoot) of a card
RaceHandleToggleComplete ==
  \E i \in 1..Len(allShoots) :
    LET shoot == allShoots[i]
        markingComplete == ~shoot.completed
        updated == updateUpcomingShoot(shoot.id, [completed |-> markingComplete],
                                       upcomingStore, now)
    IN /\ Len(tasks) < MaxTasks
       /\ upcomingStore' = updated.store
       /\ IF markingComplete
          THEN /\ nextId.shoot \in EntryIds
               /\ tasks' = spawnCancel(shoot.id)
               /\ LET fields == completedEntry(shoot)
                      saved == saveShoot(fields, shootsStore, nextId.shoot, now)
                  IN /\ shootsStore' = saved.store
                     /\ lastSaved' = [kind |-> "shoot", id |-> saved.rec.id,
                                      fields |-> fields]
               /\ nextId' = [nextId EXCEPT !.shoot = @ + 1]
          ELSE /\ tasks' = spawnSchedule(shoot.id, shoot.shootDate, shoot.shootTime)
               /\ UNCHANGED <<shootsStore, lastSaved, nextId>>
       /\ now' = now + 1
       /\ loadShoots
       /\ screenIdle

callIdle ==
  UNCHANGED <<counterVars, balanceVars, uiVars, deviceVars, storedSettings, callVars,
              storeOps, pureVars, lastOp, storeVars>>

\* scheduleShootReminder after await getReminderSettings(): the early returns,
\* then cancelReminder(key) up to its await getItem
ScheduleAfterSettings ==
  \E i \in 1..Len(tasks) :
    LET task == tasks[i]
        settings == getReminderSettings(storedSettings)
        date == parseDate(task.shootDate, tz)
        triggerDate == shootTarget(task.shootDate, task.shootTime, tz)
                         - getTimingOffset(settings.reminderTiming)
    IN /\ task.pc = "settings"
       /\ tasks' = [tasks EXCEPT ![i] =
            IF PlatformIsWeb \/ ~settings.shootReminders \/ ~date.valid \/ triggerDate <= now
            THEN [task EXCEPT !.pc = "done"]
            ELSE [task EXCEPT !.pc = "getItem", !.triggerDate = triggerDate]]
       /\ UNCHANGED <<pending, handles>>
       /\ callIdle

\* cancelReminder after await AsyncStorage.getItem(`ns_notif_${key}`)
CancelAfterGetItem ==
  \E i \in 1..Len(tasks) :
    LET task == tasks[i]
        existingId == handles[task.key]
    IN /\ task.pc = "getItem"
       /\ tasks' = [tasks EXCEPT ![i] =
            [task EXCEPT !.existingId = existingId,
                         !.pc = IF existingId # NoHandle THEN "cancelNotification"
                                ELSE afterCancel(task)]]
       /\ UNCHANGED <<pending, handles>>
       /\ callIdle

\* await Notifications.cancelScheduledNotificationAsync(existingId)
CancelNotification ==
  \E i \in 1..Len(tasks) :
    LET task == tasks[i]
    IN /\ task.pc = "cancelNotification"
       /\ pending' = {n \in pending : n.id # task.existingId}
       /\ tasks' = [tasks EXCEPT ![i] = [task EXCEPT !.pc = "removeItem"]]
       /\ UNCHANGED handles
       /\ callIdle

\* await AsyncStorage.removeItem(`ns_notif_${key}`)
CancelRemoveItem ==
  \E i \in 1..Len(tasks) :
    LET task == tasks[i]
    IN /\ task.pc = "removeItem"
       /\ handles' = [handles EXCEPT ![task.key] = NoHandle]
       /\ tasks' = [tasks EXCEPT ![i] = [task EXCEPT !.pc = afterCancel(task)]]
       /\ UNCHANGED pending
       /\ callIdle

\* const id = await Notifications.scheduleNotificationAsync({... triggerDate})
ScheduleNotification ==
  \E i \in 1..Len(tasks) :
    LET task == tasks[i]
        id == newNotificationId
    IN /\ task.pc = "schedule"
       /\ pending' = pending \cup {[id |-> id, key |-> task.key, trigger |-> task.triggerDate]}
       /\ tasks' = [tasks EXCEPT ![i] = [task EXCEPT !.id = id, !.pc = "saveScheduledId"]]
       /\ UNCHANGED handles
       /\ callIdle

\* await saveScheduledId(key, id); return id
SaveScheduledId ==
  \E i \in 1..Len(tasks) :
    LET task == tasks[i]
    IN /\ task.pc = "saveScheduledId"
       /\ handles' = [handles EXCEPT ![task.key] = task.id]
       /\ tasks' = [tasks EXCEPT ![i] = [task EXCEPT !.pc = "done"]]
       /\ UNCHANGED pending
       /\ callIdle

NextRace ==
  \/ RaceHandleSave
  \/ RaceHandleEdit
  \/ RaceHandleToggleComplete
  \/ ScheduleAfterSettings
  \/ CancelAfterGetItem
  \/ CancelNotification
  \/ CancelRemoveItem
  \/ ScheduleNotification
  \/ SaveScheduledId

-----------------------------------------------------------------------------
(* Storage calls that overlap: each await of a call is a step *)

\* a setItem that keeps the records of the stored array its value does not have
setItemKeeping(stored, value) ==
  value \o SelectSeq(stored, LAMBDA r : \A i \in 1..Len(value) : value[i].id # r.id)

\* AsyncStorage.setItem(KEY, JSON.stringify(records)): the value replaces the
\* stored one
setItem(stored, value) == value

\* the text field an update of caller c changes: each caller another one
ChangedField(c) ==
  IF c % 2 = 0 THEN "notes" ELSE "shootLocation"

\* the calls caller c makes: a save or an update of the upcoming shoots, or a
\* save of a logged shoot; the callers change different things
CallInputs(c) ==
  IF c = 1
  THEN { [fn |-> "saveUpcomingShoot", kind |-> "upcoming", id |-> 0,
          fields |-> Merge(FormAnn, [completed |-> FALSE])],
         [fn |-> "updateUpcomingShoot", kind |-> "upcoming", id |-> 1,
          fields |-> [completed |-> TRUE]],
         [fn |-> "saveShoot", kind |-> "shoot", id |-> 0,
          fields |-> completedEntry(Merge(FormAnn, [completed |-> FALSE]))] }
  ELSE { [fn |-> "saveUpcomingShoot", kind |-> "upcoming", id |-> 0,
          fields |-> Merge(FormBob, [completed |-> FALSE])],
         [fn |-> "updateUpcomingShoot", kind |-> "upcoming", id |-> 1,
          fields |-> (ChangedField(c) :> "moved")],
         [fn |-> "updateUpcomingShoot", kind |-> "upcoming", id |-> MaxShoots + 1,
          fields |-> [notes |-> "gone"]],
         [fn |-> "saveShoot", kind |-> "shoot", id |-> 0,
          fields |-> completedEntry(Merge(FormBob, [completed |-> FALSE]))] }

\* the awaits passed so far, by all calls: the position of the next one
eventsSoFar ==
  LET at(pc) == CASE pc = "idle" -> 0 [] pc = "getItem" -> 0
                  [] pc = "setItem" -> 1 [] pc = "done" -> 2
      RECURSIVE sum(_)
      sum(c) == IF c = 0 THEN 0 ELSE at(storeOps[c].pc) + sum(c - 1)
  IN sum(NumCallers)

\* what a call computes from the array its getAll returned, up to its setItem
\* (or its return of null)
callResult(call, data, id, t) ==
  CASE call.fn = "saveUpcomingShoot" ->
         Merge(saveUpcomingShoot(call.fields, data, id, t), [wrote |-> TRUE])
    [] call.fn = "saveShoot" ->
         Merge(saveShoot(call.fields, data, id, t), [wrote |-> TRUE])
    [] call.fn = "updateUpcomingShoot" ->
         updateUpcomingShoot(call.id, call.fields, data, t)

overlapIdle ==
  UNCHANGED <<counterVars, balanceVars, uiVars, tz, reminderVars, callVars, tasks,
              pureVars, lastOp, invoicesStore, allShoots, lastSaved>>

\* caller c calls a storage function: it runs up to await AsyncStorage.getItem
StoreCall(c) ==
  \E call \in CallInputs(c) :
    /\ storeOps[c].pc = "idle"
    /\ storeOps' = [storeOps EXCEPT ![c] =
         [pc |-> "getItem", call |-> call, toWrite |-> <<>>, changed |-> 0,
          readAt |-> 0, wroteAt |-> 0]]
    /\ UNCHANGED <<now, upcomingStore, shootsStore, nextId>>
    /\ overlapIdle

\* the getItem of c resolves: the call builds the array it will write and
\* calls setItem, or returns null for an id it does not find
StoreRead(c) ==
  LET op == storeOps[c]
      kind == op.call.kind
      data == Collection(kind, invoicesStore, shootsStore, upcomingStore)
      isSave == op.call.fn \in {"saveUpcomingShoot", "saveShoot"}
      result == callResult(op.call, data, nextId[kind], now)
  IN /\ op.pc = "getItem"
     /\ storeOps' = [storeOps EXCEPT ![c] =
          [op EXCEPT !.pc = IF result.wrote THEN "setItem" ELSE "done",
                     !.toWrite = result.store,
                     !.changed = IF result.wrote THEN result.rec.id ELSE 0,
                     !.readAt = eventsSoFar + 1]]
     /\ nextId' = IF isSave THEN [nextId EXCEPT ![kind] = @ + 1] ELSE nextId
     /\ now' = now + 1
     /\ UNCHANGED <<upcomingStore, shootsStore>>
     /\ overlapIdle

\* the setItem of c takes effect
StoreWrite(c) ==
  LET op == storeOps[c]
  IN /\ op.pc = "setItem"
     /\ IF op.call.kind = "upcoming"
        THEN /\ upcomingStore' = setItem(upcomingStore, op.toWrite)
             /\ UNCHANGED shootsStore
        ELSE /\ shootsStore' = setItem(shootsStore, op.toWrite)
             /\ UNCHANGED upcomingStore
     /\ storeOps' = [storeOps EXCEPT ![c] =
          [op EXCEPT !.pc = "done", !.wroteAt = eventsSoFar + 1]]
     /\ UNCHANGED <<now, nextId>>
     /\ overlapIdle

NextOverlap ==
  \E c \in Callers :
    \/ StoreCall(c)
    \/ StoreRead(c)
    \/ StoreWrite(c)

-----------------------------------------------------------------------------
(* The screens when AsyncStorage.setItem rejects *)

\* the three persisted collections
persisted == <<upcomingStore, shootsStore, invoicesStore>>

\* history of a handler: which of its writes was rejected ("none" when all went
\* through), the alerts it raised, and the collections as they were before it
Handled(op, failed, alerts) ==
  [op |-> op, failed |-> failed, alerts |-> alerts, before |-> persisted]

failIdle ==
  UNCHANGED <<counterVars, balanceVars, uiSettings, permission, uiOp, tz, storedSettings,
              asyncVars, pureVars, lastOp, lastSaved>>

\* Upcoming handleSave, new shoot or edit of a card: one awaited write inside try,
\* the catch raises the alert
FailUpcomingHandleSave ==
  \E form \in RaceInputs, editing \in 0..Len(allShoots), fails \in BOOLEAN :
    /\ alert = "none"
    /\ now < StartNow + MaxActions
    /\ editing = 0 => nextId.upcoming \in ShootIds
    /\ LET id == IF editing = 0 THEN nextId.upcoming ELSE allShoots[editing].id
           written == IF editing = 0
                      THEN saveUpcomingShoot(Merge(form, [completed |-> FALSE]),
                                             upcomingStore, id, now).store
                      ELSE updateUpcomingShoot(id, form, upcomingStore, now).store
       IN IF fails
          THEN /\ alert' = "Failed to save upcoming shoot"
               /\ lastCall' = Handled("upcomingSave", "setItem", 1)
               /\ UNCHANGED <<upcomingStore, pending, handles, nextId, allShoots>>
          ELSE /\ upcomingStore' = written
               /\ Apply(scheduleShootReminder(id, form.shootDate, form.shootTime,
                                              ReminderState, storedSettings, now, tz))
               /\ nextId' = IF editing = 0 THEN [nextId EXCEPT !.upcoming = @ + 1]
                            ELSE nextId
               /\ lastCall' = Handled("upcomingSave", "none", 0)
               /\ loadShoots
               /\ UNCHANGED alert
    /\ now' = now + 1
    /\ UNCHANGED <<shootsStore, invoicesStore>>
    /\ failIdle

\* Upcoming handleToggleComplete: the update is awaited outside any try, the
\* saveShoot of a completion inside try {} catch {}
FailHandleToggleComplete ==
  \E i \in 1..Len(allShoots), failed \in {"none", "updateUpcomingShoot", "saveShoot"} :
    LET shoot == allShoots[i]
        markingComplete == ~shoot.completed
        updated == updateUpcomingShoot(shoot.id, [completed |-> markingComplete],
                                       upcomingStore, now)
    IN /\ alert = "none"
       /\ now < StartNow + MaxActions
       /\ failed = "saveShoot" => markingComplete
       /\ IF failed = "updateUpcomingShoot"
          THEN UNCHANGED <<upcomingStore, shootsStore, pending, handles, nextId, allShoots>>
          ELSE /\ upcomingStore' = updated.store
               /\ IF markingComplete
                  THEN /\ nextId.shoot \in EntryIds
                       /\ Apply(cancelReminder(ShootKey(shoot.id), ReminderState))
                       /\ IF failed = "saveShoot"
                          THEN UNCHANGED <<shootsStore, nextId>>
                          ELSE /\ shootsStore' = saveShoot(completedEntry(shoot), shootsStore,
                                                           nextId.shoot, now).store
                               /\ nextId' = [nextId EXCEPT !.shoot = @ + 1]
                  ELSE /\ Apply(scheduleShootReminder(shoot.id, shoot.shootDate,
                                                      shoot.shootTime, ReminderState,
                                                      storedSettings, now, tz))
                       /\ UNCHANGED <<shootsStore, nextId>>
               /\ loadShoots
       /\ lastCall' = Handled("toggleComplete", failed, 0)
       /\ now' = now + 1
       /\ UNCHANGED <<alert, invoicesStore>>
       /\ failIdle

\* Shoots handleSave, new entry or edit of a card
FailShootsHandleSave ==
  \E form \in ShootInputs, editing \in 0..Len(shootsStore), fails \in BOOLEAN :
    /\ alert = "none"
    /\ now < StartNow + MaxActions
    /\ editing = 0 => nextId.shoot \in EntryIds
    /\ LET written == IF editing = 0
                      THEN saveShoot(form, shootsStore, nextId.shoot, now).store
                      ELSE updateShoot(getAllShoots(shootsStore)[editing].id, form,
                                       shootsStore, now).store
       IN IF fails
          THEN /\ alert' = "Failed to save shoot entry"
               /\ lastCall' = Handled("shootSave", "setItem", 1)
               /\ UNCHANGED <<shootsStore, nextId>>
          ELSE /\ shootsStore' = written
               /\ nextId' = IF editing = 0 THEN [nextId EXCEPT !.shoot = @ + 1] ELSE nextId
               /\ lastCall' = Handled("shootSave", "none", 0)
               /\ UNCHANGED alert
    /\ now' = now + 1
    /\ UNCHANGED <<upcomingStore, invoicesStore, allShoots, pending, handles>>
    /\ failIdle

\* EditInvoiceScreen handleSave
FailInvoiceHandleSave ==
  \E i \in 1..Len(invoicesStore), fails \in BOOLEAN :
    LET id == getAllInvoices(invoicesStore)[i].id
        updated == updateInvoice(id, InvoiceAnn, invoicesStore, now)
    IN /\ alert = "none"
       /\ now < StartNow + MaxActions
       /\ IF fails
          THEN /\ alert' = "Failed to update invoice"
               /\ lastCall' = Handled("invoiceSave", "setItem", 1)
               /\ UNCHANGED <<invoicesStore, pending, handles>>
          ELSE /\ invoicesStore' = updated.store
               /\ Apply(scheduleInvoiceReminder(id, InvoiceAnn.eventDate, ReminderState,
                                                storedSettings, now, tz))
               /\ lastCall' = Handled("invoiceSave", "none", 0)
               /\ UNCHANGED alert
       /\ now' = now + 1
       /\ UNCHANGED <<upcomingStore, shootsStore, allShoots, nextId>>
       /\ failIdle

\* the user dismisses the alert
FailDismissAlert ==
  /\ alert # "none"
  /\ alert' = "none"
  /\ UNCHANGED <<upcomingStore, shootsStore, invoicesStore, allShoots, nextId, now, pending,
                 handles, lastCall>>
  /\ failIdle

NextFail ==
  \/ FailUpcomingHandleSave
  \/ FailHandleToggleComplete
  \/ FailShootsHandleSave
  \/ FailInvoiceHandleSave
  \/ FailDismissAlert

-----------------------------------------------------------------------------
(* The trigger time of a reminder *)

\* the dates, times of day and settings a reminder is scheduled with: both
\* picker formats, 12 AM, 12 PM and other hours, every lead time and a stored
\* lead time that is none of the four
TriggerDates ==
  {EmptyDate, BadDate} \cup {Iso(Today + k) : k \in 0..MaxDaysOut}
                       \cup {Dmy(Today + k) : k \in 0..MaxDaysOut}

TriggerTimes ==
  {NoTime, Hm(12, 0, FALSE), Hm(12, 30, TRUE), Hm(9, 0, FALSE), Hm(9, 15, TRUE)}

TriggerSettings ==
  {NoSettings} \cup
  [shootReminders : BOOLEAN, invoiceReminders : BOOLEAN,
   reminderTiming : TimingOptions \cup {"1w"}]

TriggerInputs ==
  [fn : {"scheduleShootReminder"}, date : TriggerDates, time : TriggerTimes]
    \cup [fn : {"scheduleInvoiceReminder"}, date : TriggerDates, time : {NoTime}]

triggerIdle ==
  UNCHANGED <<pIn, counterVars, deviceVars, storedSettings, lastOp, storeVars, uiVars,
              balanceVars, callVars, asyncVars>>

\* scheduleShootReminder('1', ..., date, time, ...) on a device with no reminder yet
ApplyScheduleShootReminder ==
  /\ pFn = "none"
  /\ pIn.fn = "scheduleShootReminder"
  /\ LET S == scheduleShootReminder(1, pIn.date, pIn.time, ReminderState, storedSettings,
                                    now, tz)
     IN /\ Apply(S)
        /\ pOut' = S.ret
  /\ pFn' = pIn.fn
  /\ triggerIdle

\* scheduleInvoiceReminder('1', ..., date, ...) on a device with no reminder yet
ApplyScheduleInvoiceReminder ==
  /\ pFn = "none"
  /\ pIn.fn = "scheduleInvoiceReminder"
  /\ LET S == scheduleInvoiceReminder(1, pIn.date, ReminderState, storedSettings, now, tz)
     IN /\ Apply(S)
        /\ pOut' = S.ret
  /\ pFn' = pIn.fn
  /\ triggerIdle

NextTrigger ==
  \/ ApplyScheduleShootReminder
  \/ ApplyScheduleInvoiceReminder

-----------------------------------------------------------------------------
(* storage.getMonthlyStats *)

\* a / b of numbers, b # 0, kept as the fraction
quotient(a, b) == [num |-> a, den |-> b]

RECURSIVE sumPrices(_)
\* shoots.reduce((sum, s) => sum + (parseFloat(s.price) || 0), 0)
sumPrices(shoots) ==
  IF shoots = <<>> THEN 0
  ELSE sumPrices(SubSeq(shoots, 1, Len(shoots) - 1))
         + OrZero(parseFloat(shoots[Len(shoots)].price))

getMonthlyStats(shoots) ==
  LET totalShoots == Len(shoots)
      totalIncome == sumPrices(shoots)
      avgPerShoot == IF totalShoots > 0 THEN quotient(totalIncome, totalShoots)
                     ELSE quotient(0, 1)
  IN [totalShoots |-> totalShoots, totalIncome |-> totalIncome,
      avgPerShoot |-> avgPerShoot]

\* the prices of the shoots of a month: every money string of at most two
\* characters, and two of three
StatsPrices ==
  {s \in MoneyStrings : Len(s) <= 2} \cup {<<"1", ",", "1">>, <<"1", ".", "1">>}

StatsInputs == ListsUpTo([price : StatsPrices], MaxListLen)

ApplyGetMonthlyStats ==
  /\ pFn = "none"
  /\ pFn' = "getMonthlyStats"
  /\ pOut' = getMonthlyStats(pIn)
  /\ UNCHANGED <<pIn, counterVars, deviceVars, reminderVars, lastOp, storeVars, uiVars,
                 balanceVars, callVars, asyncVars>>

NextStats ==
  \/ ApplyGetMonthlyStats

-----------------------------------------------------------------------------
(* The delete actions of the Invoices and Upcoming screens *)

deleteIdle ==
  UNCHANGED <<counterVars, balanceVars, uiVars, deviceVars, storedSettings, callVars,
              asyncVars, pureVars, shootsStore, nextId, lastSaved>>

\* InvoicesTab handleDelete, the Delete button of the alert: deleteInvoice(id),
\* then the list is loaded again
InvoicesHandleDelete ==
  \E i \in 1..Len(invoicesStore) :
    LET id == getAllInvoices(invoicesStore)[i].id
    IN /\ invoicesStore' = deleteInvoice(id, invoicesStore).store
       /\ lastOp' = Op("invoiceDelete", InvoiceKey(id), NoHandle)
       /\ UNCHANGED <<upcomingStore, allShoots, pending, handles>>
       /\ deleteIdle

\* Upcoming handleDelete, the Delete button of the alert: deleteUpcomingShoot(id),
\* cancelReminder(`shoot_${id}`), loadShoots()
UpcomingHandleDelete ==
  \E i \in 1..Len(allShoots) :
    LET id == allShoots[i].id
    IN /\ upcomingStore' = deleteUpcomingShoot(id, upcomingStore).store
       /\ Apply(cancelReminder(ShootKey(id), ReminderState))
       /\ lastOp' = Op("upcomingDelete", ShootKey(id), NoHandle)
       /\ loadShoots
       /\ UNCHANGED invoicesStore
       /\ deleteIdle

NextDelete ==
  \/ UpcomingHandleSave
  \/ HandleToggleComplete
  \/ FailInvoiceHandleSave
  \/ FailDismissAlert
  \/ InvoicesHandleDelete
  \/ UpcomingHandleDelete

-----------------------------------------------------------------------------
(* The lists of the Upcoming tab *)

\* completedShoots, overdueShoots and upcomingShoots of the tab for the loaded
\* shoots at instant t on a device at offset z; NaN < 0 is false
completedShoots(shoots) == SelectSeq(shoots, LAMBDA s : s.completed)

overdueShoots(shoots, t, z) ==
  SelectSeq(shoots, LAMBDA s :
    LET days == getDaysUntil(s.shootDate, t, z)
    IN ~s.completed /\ ~days.nan /\ days.v < 0)

displayLists(shoots, t, z) ==
  [completed |-> completedShoots(shoots),
   overdue |-> overdueShoots(shoots, t, z),
   upcoming |-> getUpcomingShootsFromToday(shoots, t, z)]

\* the dates of the stored shoots: none, not a date, yesterday, today, tomorrow
TabDates == {EmptyDate, BadDate, Iso(Today - 1), Iso(Today), Iso(Today + 1)}

\* the stored shoots, ids in stored order
TabInputs ==
  UNION {{[i \in 1..n |-> [id |-> i, shootDate |-> f[i].shootDate,
                           completed |-> f[i].completed]] :
            f \in [1..n -> [shootDate : TabDates, completed : BOOLEAN]]} :
         n \in 0..MaxListLen}

RenderUpcomingTab ==
  /\ pFn = "none"
  /\ pFn' = "displayLists"
  /\ pOut' = displayLists(pIn, now, tz)
  /\ UNCHANGED <<pIn, counterVars, deviceVars, reminderVars, lastOp, storeVars, uiVars,
                 balanceVars, callVars, asyncVars>>

NextTab ==
  \/ RenderUpcomingTab

-----------------------------------------------------------------------------
(* The expenses of the Summary tab *)

EpochYear == 1970

\* the years the calendar of the model covers, and the months of a Date (0..11)
CalendarYears == EpochYear..(EpochYear + 4)
Months == 0..11

IsLeapYear(y) == y % 4 = 0 /\ (y % 100 # 0 \/ y % 400 = 0)

DaysInMonth(y, m) ==
  IF m = 1 THEN (IF IsLeapYear(y) THEN 29 ELSE 28)
  ELSE IF m \in {3, 5, 8, 10} THEN 30 ELSE 31

RECURSIVE DaysBeforeMonth(_, _)
DaysBeforeMonth(y, m) ==
  IF m = 0 THEN 0 ELSE DaysBeforeMonth(y, m - 1) + DaysInMonth(y, m - 1)

RECURSIVE DaysBeforeYear(_)
DaysBeforeYear(y) ==
  IF y = EpochYear THEN 0
  ELSE DaysBeforeYear(y - 1) + DaysBeforeMonth(y - 1, 11) + DaysInMonth(y - 1, 11)

\* the day number of day d of month m of year y; a d past the end of the month
\* runs on into the next month, as in new Date(y, m, d)
DayNumber(y, m, d) == DaysBeforeYear(y) + DaysBeforeMonth(y, m) + d - 1

\* the year and month a day number falls in
MonthOfDay(n) ==
  CHOOSE c \in [year : CalendarYears, month : Months] :
    /\ DayNumber(c.year, c.month, 1) <= n
    /\ n < DayNumber(c.year, c.month, 1) + DaysInMonth(c.year, c.month)

\* Date.prototype.getFullYear(), getMonth() and getDate() at offset z
getFullYear(t, z) == MonthOfDay(LocalDay(t, z)).year
getMonth(t, z) == MonthOfDay(LocalDay(t, z)).month
getDate(t, z) ==
  LocalDay(t, z) - DayNumber(getFullYear(t, z), getMonth(t, z), 1) + 1

\* new Date(y, m, d): midnight local time
NewLocalDate(y, m, d, z) == DayNumber(y, m, d) * MinutesPerDay - z

\* toISOString().split('T')[0]: the UTC day of the instant
toISODate(t) == Iso(t \div MinutesPerDay)

getAllExpenses(data) == sortRecords(data, "createdAt", FALSE)

saveExpense(expense, data, id, t) ==
  LET newExpense == [description |-> expense.description, amount |-> expense.amount,
                     date |-> expense.date, id |-> id, createdAt |-> t]
  IN [store |-> Append(getAllExpenses(data), newExpense), rec |-> newExpense]

getExpensesByMonth(expenses, year, month, z) ==
  SelectSeq(expenses, LAMBDA e :
    LET d == NewDate(e.date)
    IN d.valid /\ getFullYear(d.t, z) = year /\ getMonth(d.t, z) = month)

\* the month selected in the tab and the text of the expense form; the stored
\* expenses are held in pOut
ExpenseInputs ==
  [selectedYear : {EpochYear + 1, EpochYear + 2}, selectedMonth : Months,
   expenseDesc : {"", "fuel"}, expenseAmount : {"12"}]

\* the instants the tab is used at: noon UTC of each day of a month of 31 days
ExpenseClocks == {DayNumber(EpochYear + 1, 0, d) * MinutesPerDay + 720 : d \in 1..31}

HandleAddExpense ==
  /\ alert = "none"
  /\ Len(pOut) < MaxSaves
  /\ IF pIn.expenseDesc = "" \/ pIn.expenseAmount = ""
     THEN /\ alert' = "Required"
          /\ UNCHANGED <<pOut, now, pFn>>
     ELSE LET date == NewLocalDate(pIn.selectedYear, pIn.selectedMonth,
                                   getDate(now, tz), tz)
          IN /\ pOut' = saveExpense([description |-> pIn.expenseDesc,
                                     amount |-> pIn.expenseAmount,
                                     date |-> toISODate(date)],
                                    pOut, Len(pOut) + 1, now).store
             /\ pFn' = "handleAddExpense"
             /\ now' = now + 1
             /\ UNCHANGED alert
  /\ UNCHANGED <<pIn, counterVars, tz, reminderVars, lastOp, storeVars,
                 uiSettings, permission, uiOp, balanceVars, callVars, asyncVars>>

ExpenseDismissAlert ==
  /\ alert # "none"
  /\ alert' = "none"
  /\ UNCHANGED <<pureVars, counterVars, deviceVars, reminderVars, lastOp, storeVars,
                 uiSettings, permission, uiOp, balanceVars, callVars, asyncVars>>

NextExpense ==
  \/ HandleAddExpense
  \/ ExpenseDismissAlert

-----------------------------------------------------------------------------
(* The Settings screen: the load on mount and the handlers, step by step *)

\* a call in flight on the Settings screen: the load of the mount effect or a
\* handler; captured is the reminderSettings of the render the handler was
\* created in, updated what it builds, read what getReminderSettings resolved to
SettingsCall(fn, pc, field, value, captured) ==
  [fn |-> fn, pc |-> pc, field |-> field, value |-> value, captured |-> captured,
   updated |-> captured, read |-> captured, applied |-> FALSE]

\* { ...reminderSettings, [field]: value }
withField(settings, field, value) ==
  IF field = "shootReminders" THEN [settings EXCEPT !.shootReminders = value]
  ELSE IF field = "invoiceReminders" THEN [settings EXCEPT !.invoiceReminders = value]
  ELSE [settings EXCEPT !.reminderTiming = value]

\* saveReminderSettings(settings): what the settings key holds afterwards
saveReminderSettings(settings) == settings

\* what the storage holds when the tab opens: nothing, or settings that differ
\* from the defaults in every field
StoredBefore ==
  {NoSettings,
   [shootReminders |-> FALSE, invoiceReminders |-> FALSE, reminderTiming |-> "3h"]}

\* the changes the user makes: a switch set to a value, or a lead time picked
SettingsChanges ==
  ({"shootReminders", "invoiceReminders"} \X BOOLEAN)
    \cup ({"reminderTiming"} \X TimingOptions)

loadIdle ==
  UNCHANGED <<counterVars, balanceVars, storeVars, deviceVars, callVars, pureVars,
              storeOps, lastOp, uiOp>>

\* getReminderSettings() of the mount effect resolves
LoadGetItem ==
  \E i \in 1..Len(tasks) :
    /\ tasks[i].fn = "load" /\ tasks[i].pc = "getItem"
    /\ tasks' = [tasks EXCEPT ![i].read = getReminderSettings(storedSettings),
                              ![i].pc = "then"]
    /\ UNCHANGED <<uiSettings, permission, alert, reminderVars>>
    /\ loadIdle

\* .then(setReminderSettings)
LoadThen ==
  \E i \in 1..Len(tasks) :
    /\ tasks[i].fn = "load" /\ tasks[i].pc = "then"
    /\ uiSettings' = tasks[i].read
    /\ tasks' = [tasks EXCEPT ![i].pc = "done"]
    /\ UNCHANGED <<permission, alert, reminderVars>>
    /\ loadIdle

\* const updated = { ...reminderSettings, [field]: value }: the call once it has
\* built the object and called saveReminderSettings(updated)
built(call) ==
  [call EXCEPT !.updated = withField(call.captured, call.field, call.value),
               !.pc = "save"]

\* the user flips a switch or picks a lead time: the handler runs up to its
\* first await
HandlerStart ==
  \E change \in SettingsChanges :
    LET fn == IF change[1] = "reminderTiming" THEN "handleTimingChange"
              ELSE IF change[1] = "shootReminders" THEN "handleToggleShootReminders"
              ELSE "handleToggleInvoiceReminders"
        call == SettingsCall(fn, "start", change[1], change[2], uiSettings)
    IN /\ Len(tasks) < MaxTasks
       /\ alert = "none"
       /\ IF fn # "handleTimingChange" /\ change[2] = TRUE /\ ~PlatformIsWeb
          THEN /\ tasks' = Append(tasks, [call EXCEPT !.pc = "setup"])
               /\ UNCHANGED uiSettings
          ELSE /\ uiSettings' = built(call).updated
               /\ tasks' = Append(tasks, built(call))
       /\ UNCHANGED <<permission, alert, reminderVars>>
       /\ loadIdle

\* setupNotifications() resolves
HandlerAfterSetup ==
  \E i \in 1..Len(tasks), answer \in {"granted", "denied"} :
    LET setup == setupNotifications(permission, answer)
    IN /\ tasks[i].pc = "setup"
       /\ permission' = setup.status
       /\ IF ~setup.granted
          THEN /\ alert' = "Permission Needed"
               /\ tasks' = [tasks EXCEPT ![i].pc = "done"]
               /\ UNCHANGED uiSettings
          ELSE /\ uiSettings' = built(tasks[i]).updated
               /\ tasks' = [tasks EXCEPT ![i] = built(tasks[i])]
               /\ UNCHANGED alert
       /\ UNCHANGED reminderVars
       /\ loadIdle

\* the write of saveReminderSettings(updated) lands
HandlerAfterSave ==
  \E i \in 1..Len(tasks) :
    /\ tasks[i].pc = "save"
    /\ storedSettings' = saveReminderSettings(tasks[i].updated)
    /\ tasks' = [tasks EXCEPT ![i].pc = "reschedule"]
    /\ UNCHANGED <<uiSettings, permission, alert, pending, handles>>
    /\ loadIdle

\* handleReschedule(updated) runs and the handler returns
HandlerAfterReschedule ==
  \E i \in 1..Len(tasks) :
    /\ tasks[i].pc = "reschedule"
    /\ handleReschedule(storedSettings)
    /\ tasks' = [tasks EXCEPT ![i].pc = "done", ![i].applied = TRUE]
    /\ UNCHANGED <<uiSettings, permission, alert, storedSettings>>
    /\ loadIdle

LoadDismissAlert ==
  /\ alert # "none"
  /\ alert' = "none"
  /\ UNCHANGED <<uiSettings, permission, reminderVars, tasks>>
  /\ loadIdle

NextLoad ==
  \/ LoadGetItem
  \/ LoadThen
  \/ HandlerStart
  \/ HandlerAfterSetup
  \/ HandlerAfterSave
  \/ HandlerAfterReschedule
  \/ LoadDismissAlert

-----------------------------------------------------------------------------
(* Specifications *)

\* a fresh installation: nothing scheduled, no settings saved
InitReminder ==
  /\ counterStore = NoValue
  /\ cpc = [c \in Callers |-> "idle"]
  /\ cread = [c \in Callers |-> NoValue]
  /\ returned = <<>>
  /\ c0 = 0
  /\ overlapped = FALSE
  /\ now = StartNow
  /\ tz \in TzOffsets
  /\ storedSettings = NoSettings
  /\ pending = {}
  /\ handles = [k \in ReminderKeys |-> NoHandle]
  /\ lastOp = NoOp
  /\ upcomingStore = <<>>
  /\ shootsStore = <<>>
  /\ invoicesStore = <<>>
  /\ nextId = [upcoming |-> 1, shoot |-> 1, invoice |-> 1]
  /\ allShoots = <<>>
  /\ lastSaved = NoSave
  /\ uiSettings = DEFAULT_REMINDER_SETTINGS
  /\ permission = "undetermined"
  /\ alert = "none"
  /\ uiOp = NoUiOp
  /\ bInvoice = [fullPrice |-> <<>>, advancePayment |-> <<>>]
  /\ bSite = "none"
  /\ bValue = 0
  /\ lastCall = NoCall
  /\ tasks = <<>>
  /\ storeOps = [c \in Callers |-> NoStoreOp]
  /\ pIn = Null
  /\ pFn = "none"
  /\ pOut = Null

\* the invoice counter, called by up to NumCallers callers
InitCounter ==
  /\ counterStore \in {NoValue} \cup {NumToString(n) : n \in InitCounters}
  /\ cpc = [c \in Callers |-> "idle"]
  /\ cread = [c \in Callers |-> NoValue]
  /\ returned = <<>>
  /\ c0 = IF counterStore = NoValue THEN 0 ELSE ParseInt(counterStore)
  /\ overlapped = FALSE
  /\ now = StartNow
  /\ tz = 0
  /\ storedSettings = NoSettings
  /\ pending = {}
  /\ handles = [k \in ReminderKeys |-> NoHandle]
  /\ lastOp = NoOp
  /\ upcomingStore = <<>>
  /\ shootsStore = <<>>
  /\ invoicesStore = <<>>
  /\ nextId = [upcoming |-> 1, shoot |-> 1, invoice |-> 1]
  /\ allShoots = <<>>
  /\ lastSaved = NoSave
  /\ uiSettings = DEFAULT_REMINDER_SETTINGS
  /\ permission = "undetermined"
  /\ alert = "none"
  /\ uiOp = NoUiOp
  /\ bInvoice = [fullPrice |-> <<>>, advancePayment |-> <<>>]
  /\ bSite = "none"
  /\ bValue = 0
  /\ lastCall = NoCall
  /\ tasks = <<>>
  /\ storeOps = [c \in Callers |-> NoStoreOp]
  /\ pIn = Null
  /\ pFn = "none"
  /\ pOut = Null

\* the screens of a fresh installation, reminders at their defaults
InitStore ==
  /\ counterStore = NoValue
  /\ cpc = [c \in Callers |-> "idle"]
  /\ cread = [c \in Callers |-> NoValue]
  /\ returned = <<>>
  /\ c0 = 0
  /\ overlapped = FALSE
  /\ now = StartNow
  /\ tz \in TzOffsets
  /\ storedSettings = NoSettings
  /\ pending = {}
  /\ handles = [k \in ReminderKeys |-> NoHandle]
  /\ lastOp = NoOp
  /\ upcomingStore = <<>>
  /\ shootsStore = <<>>
  /\ invoicesStore = <<>>
  /\ nextId = [upcoming |-> 1, shoot |-> 1, invoice |-> 1]
  /\ allShoots = <<>>
  /\ lastSaved = NoSave
  /\ uiSettings = DEFAULT_REMINDER_SETTINGS
  /\ permission = "undetermined"
  /\ alert = "none"
  /\ uiOp = NoUiOp
  /\ bInvoice = [fullPrice |-> <<>>, advancePayment |-> <<>>]
  /\ bSite = "none"
  /\ bValue = 0
  /\ lastCall = NoCall
  /\ tasks = <<>>
  /\ storeOps = [c \in Callers |-> NoStoreOp]
  /\ pIn = Null
  /\ pFn = "none"
  /\ pOut = Null

\* the upcoming shoots on the device when the Settings screen opens: none;
\* Ann's and Bob's; or Mia's and Ann's, Ann's marked completed
UpcomingStoreInputs ==
  LET plain(form) == Merge(form, [completed |-> FALSE])
      annBob == saveUpcomingShoot(plain(FormBob),
                  saveUpcomingShoot(plain(FormAnn), <<>>, 1, StartNow - 3).store,
                  2, StartNow - 2).store
      miaAnn == saveUpcomingShoot(plain(FormAnn),
                  saveUpcomingShoot(plain(FormMia), <<>>, 1, StartNow - 3).store,
                  2, StartNow - 2).store
  IN { <<>>, annBob,
       updateUpcomingShoot(2, [completed |-> TRUE], miaAnn, StartNow - 1).store }

\* the invoices on the device when the Settings screen opens
InvoiceStoreInputs ==
  { <<>>, saveInvoice(InvoiceAnn, <<>>, 1, StartNow - 4).store }

\* the Settings screen opened with both reminder kinds switched off (so that
\* nothing is scheduled) and its state loaded from storage
InitSettings ==
  /\ counterStore = NoValue
  /\ cpc = [c \in Callers |-> "idle"]
  /\ cread = [c \in Callers |-> NoValue]
  /\ returned = <<>>
  /\ c0 = 0
  /\ overlapped = FALSE
  /\ now = StartNow
  /\ tz \in TzOffsets
  /\ storedSettings = [shootReminders |-> FALSE, invoiceReminders |-> FALSE,
                       reminderTiming |-> "1d"]
  /\ pending = {}
  /\ handles = [k \in ReminderKeys |-> NoHandle]
  /\ lastOp = NoOp
  /\ upcomingStore \in UpcomingStoreInputs
  /\ shootsStore = IF \E i \in 1..Len(upcomingStore) : upcomingStore[i].completed
                   THEN saveShoot(completedEntry(Merge(FormAnn, [completed |-> FALSE])),
                                  <<>>, 1, StartNow - 1).store
                   ELSE <<>>
  /\ invoicesStore \in InvoiceStoreInputs
  /\ nextId = [upcoming |-> Len(upcomingStore) + 1, shoot |-> Len(shootsStore) + 1,
               invoice |-> Len(invoicesStore) + 1]
  /\ allShoots = getAllUpcomingShoots(upcomingStore)
  /\ lastSaved = NoSave
  /\ uiSettings = getReminderSettings(storedSettings)
  /\ permission \in {"undetermined", "granted", "denied"}
  /\ alert = "none"
  /\ uiOp = NoUiOp
  /\ bInvoice = [fullPrice |-> <<>>, advancePayment |-> <<>>]
  /\ bSite = "none"
  /\ bValue = 0
  /\ lastCall = NoCall
  /\ tasks = <<>>
  /\ storeOps = [c \in Callers |-> NoStoreOp]
  /\ pIn = Null
  /\ pFn = "none"
  /\ pOut = Null

\* an invoice whose money fields are any strings of at most MaxStrLen characters
InitBalance ==
  /\ counterStore = NoValue
  /\ cpc = [c \in Callers |-> "idle"]
  /\ cread = [c \in Callers |-> NoValue]
  /\ returned = <<>>
  /\ c0 = 0
  /\ overlapped = FALSE
  /\ now = StartNow
  /\ tz = 0
  /\ storedSettings = NoSettings
  /\ pending = {}
  /\ handles = [k \in ReminderKeys |-> NoHandle]
  /\ lastOp = NoOp
  /\ upcomingStore = <<>>
  /\ shootsStore = <<>>
  /\ invoicesStore = <<>>
  /\ nextId = [upcoming |-> 1, shoot |-> 1, invoice |-> 1]
  /\ allShoots = <<>>
  /\ lastSaved = NoSave
  /\ uiSettings = DEFAULT_REMINDER_SETTINGS
  /\ permission = "undetermined"
  /\ alert = "none"
  /\ uiOp = NoUiOp
  /\ bInvoice \in [fullPrice : MoneyStrings, advancePayment : MoneyStrings]
  /\ bSite = "none"
  /\ bValue = 0
  /\ lastCall = NoCall
  /\ tasks = <<>>
  /\ storeOps = [c \in Callers |-> NoStoreOp]
  /\ pIn = Null
  /\ pFn = "none"
  /\ pOut = Null

\* the storage functions on empty collections
InitCrud ==
  /\ counterStore = NoValue
  /\ cpc = [c \in Callers |-> "idle"]
  /\ cread = [c \in Callers |-> NoValue]
  /\ returned = <<>>
  /\ c0 = 0
  /\ overlapped = FALSE
  /\ now = StartNow
  /\ tz = 0
  /\ storedSettings = NoSettings
  /\ pending = {}
  /\ handles = [k \in ReminderKeys |-> NoHandle]
  /\ lastOp = NoOp
  /\ upcomingStore = <<>>
  /\ shootsStore = <<>>
  /\ invoicesStore = <<>>
  /\ nextId = [upcoming |-> 1, shoot |-> 1, invoice |-> 1]
  /\ allShoots = <<>>
  /\ lastSaved = NoSave
  /\ uiSettings = DEFAULT_REMINDER_SETTINGS
  /\ permission = "undetermined"
  /\ alert = "none"
  /\ uiOp = NoUiOp
  /\ bInvoice = [fullPrice |-> <<>>, advancePayment |-> <<>>]
  /\ bSite = "none"
  /\ bValue = 0
  /\ lastCall = NoCall
  /\ tasks = <<>>
  /\ storeOps = [c \in Callers |-> NoStoreOp]
  /\ pIn = Null
  /\ pFn = "none"
  /\ pOut = Null

\* a list of shoots or of invoices, and a query
InitSearch ==
  /\ counterStore = NoValue
  /\ cpc = [c \in Callers |-> "idle"]
  /\ cread = [c \in Callers |-> NoValue]
  /\ returned = <<>>
  /\ c0 = 0
  /\ overlapped = FALSE
  /\ now = StartNow
  /\ tz = 0
  /\ storedSettings = NoSettings
  /\ pending = {}
  /\ handles = [k \in ReminderKeys |-> NoHandle]
  /\ lastOp = NoOp
  /\ upcomingStore = <<>>
  /\ shootsStore = <<>>
  /\ invoicesStore = <<>>
  /\ nextId = [upcoming |-> 1, shoot |-> 1, invoice |-> 1]
  /\ allShoots = <<>>
  /\ lastSaved = NoSave
  /\ uiSettings = DEFAULT_REMINDER_SETTINGS
  /\ permission = "undetermined"
  /\ alert = "none"
  /\ uiOp = NoUiOp
  /\ bInvoice = [fullPrice |-> <<>>, advancePayment |-> <<>>]
  /\ bSite = "none"
  /\ bValue = 0
  /\ lastCall = NoCall
  /\ tasks = <<>>
  /\ storeOps = [c \in Callers |-> NoStoreOp]
  /\ pIn \in SearchInputs
  /\ pFn = "none"
  /\ pOut = Null

\* a date string, a time of day and a device timezone
InitDays ==
  /\ counterStore = NoValue
  /\ cpc = [c \in Callers |-> "idle"]
  /\ cread = [c \in Callers |-> NoValue]
  /\ returned = <<>>
  /\ c0 = 0
  /\ overlapped = FALSE
  /\ now \in {Today * MinutesPerDay + c : c \in ClockInputs}
  /\ tz \in TzOffsets
  /\ storedSettings = NoSettings
  /\ pending = {}
  /\ handles = [k \in ReminderKeys |-> NoHandle]
  /\ lastOp = NoOp
  /\ upcomingStore = <<>>
  /\ shootsStore = <<>>
  /\ invoicesStore = <<>>
  /\ nextId = [upcoming |-> 1, shoot |-> 1, invoice |-> 1]
  /\ allShoots = <<>>
  /\ lastSaved = NoSave
  /\ uiSettings = DEFAULT_REMINDER_SETTINGS
  /\ permission = "undetermined"
  /\ alert = "none"
  /\ uiOp = NoUiOp
  /\ bInvoice = [fullPrice |-> <<>>, advancePayment |-> <<>>]
  /\ bSite = "none"
  /\ bValue = 0
  /\ lastCall = NoCall
  /\ tasks = <<>>
  /\ storeOps = [c \in Callers |-> NoStoreOp]
  /\ pIn \in DayInputs
  /\ pFn = "none"
  /\ pOut = Null

\* an invoice and the style of its document
InitHtml ==
  /\ counterStore = NoValue
  /\ cpc = [c \in Callers |-> "idle"]
  /\ cread = [c \in Callers |-> NoValue]
  /\ returned = <<>>
  /\ c0 = 0
  /\ overlapped = FALSE
  /\ now = StartNow
  /\ tz = 0
  /\ storedSettings = NoSettings
  /\ pending = {}
  /\ handles = [k \in ReminderKeys |-> NoHandle]
  /\ lastOp = NoOp
  /\ upcomingStore = <<>>
  /\ shootsStore = <<>>
  /\ invoicesStore = <<>>
  /\ nextId = [upcoming |-> 1, shoot |-> 1, invoice |-> 1]
  /\ allShoots = <<>>
  /\ lastSaved = NoSave
  /\ uiSettings = DEFAULT_REMINDER_SETTINGS
  /\ permission = "undetermined"
  /\ alert = "none"
  /\ uiOp = NoUiOp
  /\ bInvoice = [fullPrice |-> <<>>, advancePayment |-> <<>>]
  /\ bSite = "none"
  /\ bValue = 0
  /\ lastCall = NoCall
  /\ tasks = <<>>
  /\ storeOps = [c \in Callers |-> NoStoreOp]
  /\ pIn \in DocumentInputs
  /\ pFn = "none"
  /\ pOut = Null

\* the Upcoming screen of a fresh installation, no call in flight
InitRace ==
  /\ counterStore = NoValue
  /\ cpc = [c \in Callers |-> "idle"]
  /\ cread = [c \in Callers |-> NoValue]
  /\ returned = <<>>
  /\ c0 = 0
  /\ overlapped = FALSE
  /\ now = StartNow
  /\ tz = 0
  /\ storedSettings = NoSettings
  /\ pending = {}
  /\ handles = [k \in ReminderKeys |-> NoHandle]
  /\ lastOp = NoOp
  /\ upcomingStore = <<>>
  /\ shootsStore = <<>>
  /\ invoicesStore = <<>>
  /\ nextId = [upcoming |-> 1, shoot |-> 1, invoice |-> 1]
  /\ allShoots = <<>>
  /\ lastSaved = NoSave
  /\ uiSettings = DEFAULT_REMINDER_SETTINGS
  /\ permission = "undetermined"
  /\ alert = "none"
  /\ uiOp = NoUiOp
  /\ bInvoice = [fullPrice |-> <<>>, advancePayment |-> <<>>]
  /\ bSite = "none"
  /\ bValue = 0
  /\ lastCall = NoCall
  /\ tasks = <<>>
  /\ storeOps = [c \in Callers |-> NoStoreOp]
  /\ pIn = Null
  /\ pFn = "none"
  /\ pOut = Null

\* one upcoming shoot saved earlier, no call in flight
InitOverlap ==
  /\ counterStore = NoValue
  /\ cpc = [c \in Callers |-> "idle"]
  /\ cread = [c \in Callers |-> NoValue]
  /\ returned = <<>>
  /\ c0 = 0
  /\ overlapped = FALSE
  /\ now = StartNow
  /\ tz = 0
  /\ storedSettings = NoSettings
  /\ pending = {}
  /\ handles = [k \in ReminderKeys |-> NoHandle]
  /\ lastOp = NoOp
  /\ upcomingStore = saveUpcomingShoot(Merge(FormMia, [completed |-> FALSE]), <<>>, 1,
                                       StartNow - 1).store
  /\ shootsStore = <<>>
  /\ invoicesStore = <<>>
  /\ nextId = [upcoming |-> 2, shoot |-> 1, invoice |-> 1]
  /\ allShoots = saveUpcomingShoot(Merge(FormMia, [completed |-> FALSE]), <<>>, 1,
                                   StartNow - 1).store
  /\ lastSaved = NoSave
  /\ uiSettings = DEFAULT_REMINDER_SETTINGS
  /\ permission = "undetermined"
  /\ alert = "none"
  /\ uiOp = NoUiOp
  /\ bInvoice = [fullPrice |-> <<>>, advancePayment |-> <<>>]
  /\ bSite = "none"
  /\ bValue = 0
  /\ lastCall = NoCall
  /\ tasks = <<>>
  /\ storeOps = [c \in Callers |-> NoStoreOp]
  /\ pIn = Null
  /\ pFn = "none"
  /\ pOut = Null

\* the screens with one invoice saved earlier
InitFail ==
  /\ counterStore = NoValue
  /\ cpc = [c \in Callers |-> "idle"]
  /\ cread = [c \in Callers |-> NoValue]
  /\ returned = <<>>
  /\ c0 = 0
  /\ overlapped = FALSE
  /\ now = StartNow
  /\ tz = 0
  /\ storedSettings = NoSettings
  /\ pending = {}
  /\ handles = [k \in ReminderKeys |-> NoHandle]
  /\ lastOp = NoOp
  /\ upcomingStore = <<>>
  /\ shootsStore = <<>>
  /\ invoicesStore = saveInvoice(InvoiceBare, <<>>, 1, StartNow - 1).store
  /\ nextId = [upcoming |-> 1, shoot |-> 1, invoice |-> 2]
  /\ allShoots = <<>>
  /\ lastSaved = NoSave
  /\ uiSettings = DEFAULT_REMINDER_SETTINGS
  /\ permission = "undetermined"
  /\ alert = "none"
  /\ uiOp = NoUiOp
  /\ bInvoice = [fullPrice |-> <<>>, advancePayment |-> <<>>]
  /\ bSite = "none"
  /\ bValue = 0
  /\ lastCall = NoCall
  /\ tasks = <<>>
  /\ storeOps = [c \in Callers |-> NoStoreOp]
  /\ pIn = Null
  /\ pFn = "none"
  /\ pOut = Null

\* a date, a time of day, stored settings and a device timezone
InitTrigger ==
  /\ counterStore = NoValue
  /\ cpc = [c \in Callers |-> "idle"]
  /\ cread = [c \in Callers |-> NoValue]
  /\ returned = <<>>
  /\ c0 = 0
  /\ overlapped = FALSE
  /\ now = StartNow
  /\ tz \in TzOffsets
  /\ storedSettings \in TriggerSettings
  /\ pending = {}
  /\ handles = [k \in ReminderKeys |-> NoHandle]
  /\ lastOp = NoOp
  /\ upcomingStore = <<>>
  /\ shootsStore = <<>>
  /\ invoicesStore = <<>>
  /\ nextId = [upcoming |-> 1, shoot |-> 1, invoice |-> 1]
  /\ allShoots = <<>>
  /\ lastSaved = NoSave
  /\ uiSettings = DEFAULT_REMINDER_SETTINGS
  /\ permission = "undetermined"
  /\ alert = "none"
  /\ uiOp = NoUiOp
  /\ bInvoice = [fullPrice |-> <<>>, advancePayment |-> <<>>]
  /\ bSite = "none"
  /\ bValue = 0
  /\ lastCall = NoCall
  /\ tasks = <<>>
  /\ storeOps = [c \in Callers |-> NoStoreOp]
  /\ pIn \in TriggerInputs
  /\ pFn = "none"
  /\ pOut = Null

\* the logged shoots of a month
InitStats ==
  /\ counterStore = NoValue
  /\ cpc = [c \in Callers |-> "idle"]
  /\ cread = [c \in Callers |-> NoValue]
  /\ returned = <<>>
  /\ c0 = 0
  /\ overlapped = FALSE
  /\ now = StartNow
  /\ tz = 0
  /\ storedSettings = NoSettings
  /\ pending = {}
  /\ handles = [k \in ReminderKeys |-> NoHandle]
  /\ lastOp = NoOp
  /\ upcomingStore = <<>>
  /\ shootsStore = <<>>
  /\ invoicesStore = <<>>
  /\ nextId = [upcoming |-> 1, shoot |-> 1, invoice |-> 1]
  /\ allShoots = <<>>
  /\ lastSaved = NoSave
  /\ uiSettings = DEFAULT_REMINDER_SETTINGS
  /\ permission = "undetermined"
  /\ alert = "none"
  /\ uiOp = NoUiOp
  /\ bInvoice = [fullPrice |-> <<>>, advancePayment |-> <<>>]
  /\ bSite = "none"
  /\ bValue = 0
  /\ lastCall = NoCall
  /\ tasks = <<>>
  /\ storeOps = [c \in Callers |-> NoStoreOp]
  /\ pIn \in StatsInputs
  /\ pFn = "none"
  /\ pOut = Null

\* the screens with one invoice saved earlier, no reminder yet
InitDelete ==
  /\ counterStore = NoValue
  /\ cpc = [c \in Callers |-> "idle"]
  /\ cread = [c \in Callers |-> NoValue]
  /\ returned = <<>>
  /\ c0 = 0
  /\ overlapped = FALSE
  /\ now = StartNow
  /\ tz = 0
  /\ storedSettings = NoSettings
  /\ pending = {}
  /\ handles = [k \in ReminderKeys |-> NoHandle]
  /\ lastOp = NoOp
  /\ upcomingStore = <<>>
  /\ shootsStore = <<>>
  /\ invoicesStore = saveInvoice(InvoiceBare, <<>>, 1, StartNow - 1).store
  /\ nextId = [upcoming |-> 1, shoot |-> 1, invoice |-> 2]
  /\ allShoots = <<>>
  /\ lastSaved = NoSave
  /\ uiSettings = DEFAULT_REMINDER_SETTINGS
  /\ permission = "undetermined"
  /\ alert = "none"
  /\ uiOp = NoUiOp
  /\ bInvoice = [fullPrice |-> <<>>, advancePayment |-> <<>>]
  /\ bSite = "none"
  /\ bValue = 0
  /\ lastCall = NoCall
  /\ tasks = <<>>
  /\ storeOps = [c \in Callers |-> NoStoreOp]
  /\ pIn = Null
  /\ pFn = "none"
  /\ pOut = Null

\* the Upcoming tab with its shoots loaded, at some time of day in some zone
InitTab ==
  /\ counterStore = NoValue
  /\ cpc = [c \in Callers |-> "idle"]
  /\ cread = [c \in Callers |-> NoValue]
  /\ returned = <<>>
  /\ c0 = 0
  /\ overlapped = FALSE
  /\ now \in {Today * MinutesPerDay + c : c \in ClockInputs}
  /\ tz \in TzOffsets
  /\ storedSettings = NoSettings
  /\ pending = {}
  /\ handles = [k \in ReminderKeys |-> NoHandle]
  /\ lastOp = NoOp
  /\ upcomingStore = <<>>
  /\ shootsStore = <<>>
  /\ invoicesStore = <<>>
  /\ nextId = [upcoming |-> 1, shoot |-> 1, invoice |-> 1]
  /\ allShoots = <<>>
  /\ lastSaved = NoSave
  /\ uiSettings = DEFAULT_REMINDER_SETTINGS
  /\ permission = "undetermined"
  /\ alert = "none"
  /\ uiOp = NoUiOp
  /\ bInvoice = [fullPrice |-> <<>>, advancePayment |-> <<>>]
  /\ bSite = "none"
  /\ bValue = 0
  /\ lastCall = NoCall
  /\ tasks = <<>>
  /\ storeOps = [c \in Callers |-> NoStoreOp]
  /\ pIn \in TabInputs
  /\ pFn = "none"
  /\ pOut = Null

\* the Summary tab with no expense stored, some month selected, on some day of a month
InitExpense ==
  /\ counterStore = NoValue
  /\ cpc = [c \in Callers |-> "idle"]
  /\ cread = [c \in Callers |-> NoValue]
  /\ returned = <<>>
  /\ c0 = 0
  /\ overlapped = FALSE
  /\ now \in ExpenseClocks
  /\ tz \in TzOffsets
  /\ storedSettings = NoSettings
  /\ pending = {}
  /\ handles = [k \in ReminderKeys |-> NoHandle]
  /\ lastOp = NoOp
  /\ upcomingStore = <<>>
  /\ shootsStore = <<>>
  /\ invoicesStore = <<>>
  /\ nextId = [upcoming |-> 1, shoot |-> 1, invoice |-> 1]
  /\ allShoots = <<>>
  /\ lastSaved = NoSave
  /\ uiSettings = DEFAULT_REMINDER_SETTINGS
  /\ permission = "undetermined"
  /\ alert = "none"
  /\ uiOp = NoUiOp
  /\ bInvoice = [fullPrice |-> <<>>, advancePayment |-> <<>>]
  /\ bSite = "none"
  /\ bValue = 0
  /\ lastCall = NoCall
  /\ tasks = <<>>
  /\ storeOps = [c \in Callers |-> NoStoreOp]
  /\ pIn \in ExpenseInputs
  /\ pFn = "none"
  /\ pOut = <<>>

\* the Settings tab just mounted: the state holds the defaults, the load is in flight
InitLoad ==
  /\ counterStore = NoValue
  /\ cpc = [c \in Callers |-> "idle"]
  /\ cread = [c \in Callers |-> NoValue]
  /\ returned = <<>>
  /\ c0 = 0
  /\ overlapped = FALSE
  /\ now = StartNow
  /\ tz = 0
  /\ storedSettings \in StoredBefore
  /\ pending = {}
  /\ handles = [k \in ReminderKeys |-> NoHandle]
  /\ lastOp = NoOp
  /\ upcomingStore = <<>>
  /\ shootsStore = <<>>
  /\ invoicesStore = <<>>
  /\ nextId = [upcoming |-> 1, shoot |-> 1, invoice |-> 1]
  /\ allShoots = <<>>
  /\ lastSaved = NoSave
  /\ uiSettings = DEFAULT_REMINDER_SETTINGS
  /\ permission = "undetermined"
  /\ alert = "none"
  /\ uiOp = NoUiOp
  /\ bInvoice = [fullPrice |-> <<>>, advancePayment |-> <<>>]
  /\ bSite = "none"
  /\ bValue = 0
  /\ lastCall = [op |-> "openSettings", before |-> storedSettings]
  /\ tasks = <<SettingsCall("load", "getItem", "none", FALSE, DEFAULT_REMINDER_SETTINGS)>>
  /\ storeOps = [c \in Callers |-> NoStoreOp]
  /\ pIn = Null
  /\ pFn = "none"
  /\ pOut = Null

SpecCounter == InitCounter /\ [][NextCounterSpec]_vars

SpecReminder == InitReminder /\ [][NextReminder]_vars

SpecStore == InitStore /\ [][NextStore]_vars

SpecSettings == InitSettings /\ [][NextSettings]_vars

SpecBalance == InitBalance /\ [][NextBalance]_vars

SpecCrud == InitCrud /\ [][NextCrud]_vars

SpecSearch == InitSearch /\ [][NextSearch]_vars

SpecDays == InitDays /\ [][NextDays]_vars

SpecHtml == InitHtml /\ [][NextHtml]_vars

SpecRace == InitRace /\ [][NextRace]_vars

SpecOverlap == InitOverlap /\ [][NextOverlap]_vars

SpecFail == InitFail /\ [][NextFail]_vars

SpecTrigger == InitTrigger /\ [][NextTrigger]_vars

SpecStats == InitStats /\ [][NextStats]_vars

SpecDelete == InitDelete /\ [][NextDelete]_vars

SpecTab == InitTab /\ [][NextTab]_vars

SpecExpense == InitExpense /\ [][NextExpense]_vars

SpecLoad == InitLoad /\ [][NextLoad]_vars

-----------------------------------------------------------------------------
(* C1 *)

RECURSIVE DigitsValue(_, _)
\* the number a digit string denotes, most significant digit first
DigitsValue(s, acc) ==
  IF s = <<>> THEN acc ELSE DigitsValue(Tail(s), 10 * acc + Head(s))

\* s is n written in decimal, zero-padded to 4 digits and no further
IsPadded4(s, n) ==
  /\ Len(s) >= 4
  /\ \A i \in 1..Len(s) : s[i] \in 0..9
  /\ DigitsValue(s, 0) = n
  /\ Len(s) > 4 => s[1] # 0

\* C1: in a sequence of non-overlapping calls of getNextInvoiceNumber the k-th
\* call returns c0 + k in decimal, zero-padded to 4 digits, so the returned
\* numbers are strictly increasing and never repeat; a fresh store gives
\* "0001" then "0002".
C1_Sequential ==
  ~overlapped =>
    /\ \A k \in 1..Len(returned) : IsPadded4(returned[k], c0 + k)
    /\ \A j, k \in 1..Len(returned) :
         j < k => DigitsValue(returned[j], 0) < DigitsValue(returned[k], 0)
    /\ (c0 = 0 /\ Len(returned) >= 2) =>
         (returned[1] = <<0, 0, 0, 1>> /\ returned[2] = <<0, 0, 0, 2>>)

C1_Witness ==
  /\ ~overlapped
  /\ c0 = 0
  /\ Len(returned) = 2
  /\ returned[2] = <<0, 0, 0, 2>>

-----------------------------------------------------------------------------
(* C4 *)

\* C4: whenever no reminder operation is in flight, a handle is persisted
\* under a reminder key if and only if a notification for that key is
\* scheduled with the platform; a reminder that was cancelled, has fired or
\* was removed by the bulk cancel-all has no persisted handle left.
C4_HandleIffPending ==
  \A key \in ReminderKeys : (handles[key] # NoHandle) <=> HasPending(key)

-----------------------------------------------------------------------------
(* C5 *)

PendingFor(P, key) == {n \in P : n.key = key}

\* what a successful schedule call must leave: the notifications of the other
\* keys untouched, and for its own key the new notification alone, whose id is
\* the returned one, is persisted as the handle and was not scheduled before
ReplacedBy(S, key) ==
  S.ret # NoHandle =>
    /\ PendingFor(S.pending, key) \cap pending = {}
    /\ {n.id : n \in PendingFor(S.pending, key)} = {S.ret}
    /\ Cardinality(PendingFor(S.pending, key)) = 1
    /\ S.handles[key] = S.ret
    /\ \A other \in ReminderKeys \ {key} :
         PendingFor(S.pending, other) = PendingFor(pending, other)

\* C5: after any sequence of schedule, cancel and reschedule-all calls at most
\* one notification is scheduled per reminder key, and a schedule call that
\* succeeds for a key with a scheduled notification replaces that notification.
C5_OnePerKey ==
  /\ \A key \in ReminderKeys : Cardinality(PendingFor(pending, key)) <= 1
  /\ \A id \in ShootIds, d \in DateInputs, tm \in TimeInputs :
       ReplacedBy(scheduleShootReminder(id, d, tm, ReminderState,
                                        storedSettings, now, tz), ShootKey(id))
  /\ \A id \in InvoiceIds, d \in DateInputs :
       ReplacedBy(scheduleInvoiceReminder(id, d, ReminderState,
                                          storedSettings, now, tz), InvoiceKey(id))

C5_Witness ==
  /\ lastOp.op = "scheduleShoot"
  /\ lastOp.had
  /\ lastOp.ret # NoHandle
  /\ Cardinality(PendingFor(pending, lastOp.key)) = 1
  /\ Cardinality(pending) >= 2

-----------------------------------------------------------------------------
(* C6 *)

Unparseable(d) == d.k \in {"empty", "bad"}

ShootTriggerNotFuture(d, tm) ==
  \/ Unparseable(d)
  \/ shootTarget(d, tm, tz)
       - getTimingOffset(getReminderSettings(storedSettings).reminderTiming) <= now

InvoiceTriggerNotFuture(d) ==
  \/ Unparseable(d)
  \/ invoiceTarget(d, tz)
       - getTimingOffset(getReminderSettings(storedSettings).reminderTiming) <= now

\* C6: a schedule call whose date does not parse, or whose trigger time is not
\* after now, returns null and leaves the scheduled notifications and the
\* persisted handles as they were.
C6_PastIsNoOp ==
  /\ \A id \in ShootIds, d \in DateInputs, tm \in TimeInputs :
       ShootTriggerNotFuture(d, tm) =>
         scheduleShootReminder(id, d, tm, ReminderState, storedSettings, now, tz)
           = ReminderState
  /\ \A id \in InvoiceIds, d \in DateInputs :
       InvoiceTriggerNotFuture(d) =>
         scheduleInvoiceReminder(id, d, ReminderState, storedSettings, now, tz)
           = ReminderState

\* a shoot reminder call came back null although shoot reminders are on and a
\* notification was scheduled for the key, which is still there
C6_Witness ==
  /\ lastOp.op = "scheduleShoot"
  /\ lastOp.ret = NoHandle
  /\ lastOp.had
  /\ getReminderSettings(storedSettings).shootReminders
  /\ HasPending(lastOp.key)
  /\ handles[lastOp.key] # NoHandle

-----------------------------------------------------------------------------
(* C7 *)

\* C7: cancelReminder(key) leaves no handle and no scheduled notification for
\* the key, and cancelling again changes nothing.
C7_CancelIdempotent ==
  \A key \in ReminderKeys :
    LET S1 == cancelReminder(key, ReminderState)
        S2 == cancelReminder(key, S1)
    IN /\ S1.handles[key] = NoHandle
       /\ PendingFor(S1.pending, key) = {}
       /\ S2 = S1

\* the same key was cancelled twice in a row, while another key keeps its
\* notification
C7_Witness ==
  /\ lastOp.op = "cancel"
  /\ lastOp.again
  /\ handles[lastOp.key] = NoHandle
  /\ ~HasPending(lastOp.key)
  /\ pending # {}

-----------------------------------------------------------------------------
(* C8 *)

Range(seq) == {seq[i] : i \in 1..Len(seq)}

Lead == getTimingOffset(getReminderSettings(storedSettings).reminderTiming)

\* the reminders a full rebuild must leave, as (key, trigger time) pairs
ExpectedShootReminders(shoots) ==
  IF getReminderSettings(storedSettings).shootReminders
  THEN {<<ShootKey(sh.id), shootTarget(sh.shootDate, sh.shootTime, tz) - Lead>> :
          sh \in {x \in Range(shoots) :
                    /\ ~x.completed
                    /\ ~Unparseable(x.shootDate)
                    /\ shootTarget(x.shootDate, x.shootTime, tz) - Lead > now}}
  ELSE {}

ExpectedInvoiceReminders(invoices) ==
  IF getReminderSettings(storedSettings).invoiceReminders
  THEN {<<InvoiceKey(inv.id), invoiceTarget(inv.eventDate, tz) - Lead>> :
          inv \in {x \in Range(invoices) :
                     /\ ~Unparseable(x.eventDate)
                     /\ invoiceTarget(x.eventDate, tz) - Lead > now}}
  ELSE {}

\* C8: after rescheduleAllReminders(shoots, invoices) the scheduled
\* notifications are exactly one for each non-completed shoot with a future
\* trigger time if shoot reminders are on, and one for each invoice with a
\* future trigger time if invoice reminders are on; nothing else remains.
C8_FullRebuild ==
  \A shoots \in ShootListInputs, invoices \in InvoiceListInputs :
    LET S == rescheduleAllReminders(shoots, invoices, ReminderState,
                                    storedSettings, now, tz)
        expected == ExpectedShootReminders(shoots)
                      \cup ExpectedInvoiceReminders(invoices)
    IN /\ {<<n.key, n.trigger>> : n \in S.pending} = expected
       /\ Cardinality(S.pending) = Cardinality(expected)

\* a rebuild that scheduled something and dropped a reminder that had a handle
C8_Witness ==
  /\ lastOp.op = "reschedule"
  /\ pending # {}
  /\ \E key \in ReminderKeys : handles[key] # NoHandle /\ ~HasPending(key)

-----------------------------------------------------------------------------
(* C2 *)

IdsOf(recs) == {recs[i].id : i \in 1..Len(recs)}

\* the ids getUpcomingShootsFromToday returns for the persisted collection
FromTodayIds(data, t, z) ==
  IdsOf(getUpcomingShootsFromToday(getAllUpcomingShoots(data), t, z))

\* the date string of the day after the device's current day
TomorrowAt(t, z) == Iso(LocalDay(t, z) + 1)

\* C2: an upcoming shoot saved with completed = false and tomorrow's date is
\* returned by getUpcomingShootsFromToday; once handleToggleComplete has marked
\* it completed it is no longer returned, and getAllShoots holds a new
\* ShootEntry whose client name, shoot date and price are the upcoming shoot's
\* client name, shoot date and package price.
C2_SavedThenCompleted ==
  [][ /\ ( /\ nextId'.upcoming # nextId.upcoming
           /\ lastSaved'.fields.shootDate = TomorrowAt(now, tz)
           /\ ~lastSaved'.fields.completed )
         => lastSaved'.id \in FromTodayIds(upcomingStore', now', tz')
      /\ ( /\ lastOp'.op = "markComplete"
           /\ nextId'.shoot # nextId.shoot
           /\ findById(allShoots, lastOp'.key[2]).shootDate = TomorrowAt(now, tz) )
         => LET u == findById(allShoots, lastOp'.key[2])
                before == IdsOf(getAllShoots(shootsStore))
                after == getAllShoots(shootsStore')
            IN /\ u.id \notin FromTodayIds(upcomingStore', now', tz')
               /\ \E i \in 1..Len(after) :
                    /\ after[i].id \notin before
                    /\ after[i].clientName = u.clientName
                    /\ after[i].shootDate = u.shootDate
                    /\ after[i].price = u.packagePrice
    ]_vars

-----------------------------------------------------------------------------
(* C3 *)

\* the record read back carries every field passed to the save, and the id
FieldsReadBack(rec, fields, id) ==
  /\ rec # Null
  /\ rec.id = id
  /\ \A f \in DOMAIN fields : rec[f] = fields[f]

\* C3: after saveShoot(fields) or saveInvoice(fields) has returned a record,
\* getShoot or getInvoice of the returned id yields a record whose every
\* input field equals the value passed to the save (also for a ShootEntry
\* saved with an empty client name and a non-empty model name).
C3_RoundTrip ==
  /\ lastSaved.kind = "shoot"
       => FieldsReadBack(getShoot(lastSaved.id, shootsStore), lastSaved.fields,
                         lastSaved.id)
  /\ lastSaved.kind = "invoice"
       => FieldsReadBack(getInvoice(lastSaved.id, invoicesStore), lastSaved.fields,
                         lastSaved.id)

-----------------------------------------------------------------------------
(* C9 *)

\* the step is a reminder switch turned on with the permission refused
RefusedToggleOn ==
  /\ uiOp'.op \in {"toggleShoot", "toggleInvoice"}
  /\ uiOp'.val
  /\ ~uiOp'.granted

\* C9: when a reminder switch is turned on and setupNotifications returns
\* false, the in-memory settings and the persisted settings stay as they were,
\* no reschedule runs (the scheduled notifications and their handles stay as
\* they were) and the "Permission Needed" alert is shown.
C9_RefusedToggleReverts ==
  [][ RefusedToggleOn
        => /\ uiSettings' = uiSettings
           /\ storedSettings' = storedSettings
           /\ ~uiOp'.rescheduled
           /\ pending' = pending
           /\ handles' = handles
           /\ alert' = "Permission Needed"
    ]_vars

\* the shoot switch was turned on and refused while reminders were scheduled
C9_Witness ==
  /\ uiOp.op = "toggleShoot"
  /\ uiOp.val
  /\ ~uiOp.granted
  /\ permission = "denied"
  /\ alert = "Permission Needed"
  /\ ~uiSettings.shootReminders
  /\ storedSettings = uiSettings
  /\ upcomingStore # <<>>
  /\ pending # {}

-----------------------------------------------------------------------------
(* C10 *)

\* the whole string is a decimal number: an optional sign, digits and at most
\* one point, at least one digit
IsNumber(s) ==
  LET signed == s # <<>> /\ Head(s) \in {"-", "+"}
      body == IF signed THEN Tail(s) ELSE s
  IN /\ \A i \in 1..Len(body) : body[i] \in DigitChars \cup {"."}
     /\ Cardinality({i \in 1..Len(body) : body[i] = "."}) <= 1
     /\ \E i \in 1..Len(body) : body[i] \in DigitChars

\* the value of a string that is a number, in units of 1 / MoneyScale
NumberValue(s) ==
  LET signed == s # <<>> /\ Head(s) \in {"-", "+"}
      body == IF signed THEN Tail(s) ELSE s
      points == {i \in 1..Len(body) : body[i] = "."}
      p == IF points = {} THEN Len(body) + 1 ELSE CHOOSE i \in points : TRUE
      whole == SubSeq(body, 1, p - 1)
      fraction == SubSeq(body, p + 1, Len(body))
      mag == DigitsToInt(whole) * MoneyScale
             + DigitsToInt(fraction) * Pow10(MaxStrLen - Len(fraction))
  IN IF signed /\ Head(s) = "-" THEN -mag ELSE mag

\* num(s): the numeric value of s, 0 when s is not a number
numericValue(s) == IF IsNumber(s) THEN NumberValue(s) ELSE 0

\* C10: the balance computed by calculateBalance(getTotal(invoice),
\* invoice.advancePayment), by the invoice list and by the edit screen is
\* num(fullPrice) - num(advancePayment), num(s) being the numeric value of s
\* and 0 whenever s is not a number.
C10_BalanceOfNumericValues ==
  bSite # "none"
    => bValue = numericValue(bInvoice.fullPrice) - numericValue(bInvoice.advancePayment)

-----------------------------------------------------------------------------
(* C11 *)

\* the value a view is ordered by: the creation instant, or the day of the
\* shoot date
OrderKey(rec, field) ==
  IF field = "createdAt" THEN rec.createdAt ELSE rec.shootDate.d

Ordered(view, field, ascending) ==
  \A i, j \in 1..Len(view) :
    i < j => IF ascending THEN OrderKey(view[i], field) <= OrderKey(view[j], field)
             ELSE OrderKey(view[i], field) >= OrderKey(view[j], field)

\* the view holds every stored record exactly once
EachOnce(view, data) ==
  /\ Len(view) = Len(data)
  /\ \A i \in 1..Len(data) :
       Cardinality({j \in 1..Len(view) : view[j].id = data[i].id}) = 1

-----------------------------------------------------------------------------
(* C12 *)

\* C12: an update of an id that is not in the collection returns null and a
\* delete of such an id returns false, neither writes and the persisted
\* collection stays as it was; a delete of an id that is in the collection
\* returns true and removes the record with that id and no other.
C12_NotFoundAndDelete ==
  [][ lastCall'.op \in {"update", "delete"} =>
        LET kind == lastCall'.kind
            id == lastCall'.id
            before == Collection(kind, invoicesStore, shootsStore, upcomingStore)
            after == Collection(kind, invoicesStore', shootsStore', upcomingStore')
            present == id \in IdsOf(before)
        IN /\ (lastCall'.op = "update" /\ ~present)
                => /\ lastCall'.ret = Null
                   /\ ~lastCall'.wrote
                   /\ after = before
           /\ (lastCall'.op = "delete" /\ ~present)
                => /\ lastCall'.ret = FALSE
                   /\ ~lastCall'.wrote
                   /\ after = before
           /\ (lastCall'.op = "delete" /\ present)
                => /\ lastCall'.ret = TRUE
                   /\ getAll(kind, after)
                        = SelectSeq(getAll(kind, before), LAMBDA r : r.id # id)
                   /\ Len(after) = Len(before) - 1
    ]_vars

\* an update named an id that a collection holding a record does not hold
C12_Witness ==
  /\ lastCall.op = "update"
  /\ lastCall.ret = Null
  /\ ~lastCall.wrote
  /\ Len(Collection(lastCall.kind, invoicesStore, shootsStore, upcomingStore)) >= 1

-----------------------------------------------------------------------------
(* C13 *)

\* q occurs in s as a run of consecutive characters
Occurs(q, s) ==
  \E i \in 0..(Len(s) - Len(q)) : \A k \in 1..Len(q) : s[i + k] = q[k]

\* s without its upper case: "B" is the one upper-case character of TextChars
Folded(s) == [i \in 1..Len(s) |-> IF s[i] = "B" THEN "b" ELSE s[i]]

\* s without the spaces at its ends
Trimmed(s) ==
  LET inner == {i \in 1..Len(s) : s[i] # " "}
  IN IF inner = {} THEN <<>>
     ELSE SubSeq(s, CHOOSE i \in inner : \A j \in inner : i <= j,
                    CHOOSE i \in inner : \A j \in inner : i >= j)

\* the text fields of a record of the kind: names, location, phone, type,
\* notes, invoice number, as far as the kind has them
TextFields(kind) ==
  IF kind = "shoot"
  THEN {"clientName", "salonName", "modelName", "shootLocation", "phoneNumber",
        "shootType", "notes"}
  ELSE {"customerNames", "eventLocation", "phoneNumber", "invoiceNumber"}

QueryMatches(kind, rec, q) ==
  \E f \in TextFields(kind) : Occurs(q, Folded(rec[f]))

\* C13: a search returns, in the order of its input, exactly the records in which
\* the trimmed, case-folded query occurs in at least one text field (name, location,
\* phone, type, notes, invoice number, as far as the kind has them); an empty or
\* whitespace-only query returns the input unchanged
C13_SearchMatchesTextFields ==
  pFn \in {"searchShoots", "searchInvoices"} =>
    LET q == Trimmed(Folded(pIn.query))
    IN pOut = IF q = <<>> THEN pIn.list
              ELSE SelectSeq(pIn.list, LAMBDA r : QueryMatches(pIn.kind, r, q))

-----------------------------------------------------------------------------
(* C14 *)

\* C14: getDaysUntil of a YYYY-MM-DD string is the signed number of local calendar
\* days from today to that day (0 for today, 1 for tomorrow, -1 for yesterday),
\* at every device timezone offset
C14_DaysUntilIsLocalDayDifference ==
  (pFn = "getDaysUntil" /\ pIn.k = "iso") =>
    pOut = Num(pIn.d - LocalDay(now, tz))

-----------------------------------------------------------------------------
(* C15 *)

\* the label stated for day count d
StatedLabel(d) ==
  CASE d < 0 -> "Overdue"
    [] d = 0 -> "Today"
    [] d = 1 -> "Tomorrow"
    [] d \in 2..7 -> ToString(d) \o " days"
    [] d \in 8..30 -> ToString((d + 6) \div 7) \o " weeks"
    [] d >= 31 -> ToString((d + 29) \div 30) \o " months"

\* C15: the label of day count d is "Overdue" for d < 0, "Today" for 0, "Tomorrow"
\* for 1, "<d> days" for 2..7, "<ceil(d/7)> weeks" for 8..30 and "<ceil(d/30)>
\* months" from 31 on: 7 gives "7 days", 8 "2 weeks", 30 "5 weeks", 31 "2 months"
C15_LabelOfDayCount ==
  (pFn = "getDaysUntilLabel" /\ ~pOut.days.nan) =>
    /\ pOut.label = StatedLabel(pOut.days.v)
    /\ (pOut.days.v = 7 => pOut.label = "7 days")
    /\ (pOut.days.v = 8 => pOut.label = "2 weeks")
    /\ (pOut.days.v = 30 => pOut.label = "5 weeks")
    /\ (pOut.days.v = 31 => pOut.label = "2 months")

\* labels of 7, 8, 30 and 31 days and of a day past are all computed
C15_Witness ==
  /\ pFn = "getDaysUntilLabel"
  /\ ~pOut.days.nan
  /\ pOut.days.v = 31
  /\ pOut.label = "2 months"

-----------------------------------------------------------------------------
(* C16 *)

\* what a document shows of the invoice: the amounts and the item rows
Shown(doc) ==
  [total |-> doc.total, advance |-> doc.advance, balance |-> doc.balance,
   rows |-> [i \in 1..Len(doc.rows) |->
               [description |-> doc.rows[i].description, qty |-> doc.rows[i].qty]]]

\* C16: the five style variants show the same computed total, advance and balance
\* and the same item rows, an empty quantity rendered as "---"; a style that is
\* none of the five renders as the elegant one
C16_StylesShareContent ==
  pFn = "generateInvoiceHTML" =>
    LET inv == pIn.invoice
    IN /\ \A s \in InvoiceStyles : Shown(generateInvoiceHTML(inv, s)) = Shown(pOut)
       /\ Len(pOut.rows) = Len(inv.items)
       /\ \A i \in 1..Len(inv.items) :
            /\ pOut.rows[i].description = inv.items[i].description
            /\ pOut.rows[i].qty =
                 IF inv.items[i].quantity = "" THEN "---" ELSE inv.items[i].quantity
       /\ pOut.layout = IF pIn.style \in InvoiceStyles THEN pIn.style ELSE "elegant"
       /\ (pIn.style \notin InvoiceStyles => pOut = generateInvoiceHTML(inv, "elegant"))

\* an unrecognised style, an item without a quantity
C16_Witness ==
  /\ pFn = "generateInvoiceHTML"
  /\ pIn.style = "vintage"
  /\ pOut.layout = "elegant"
  /\ \E i \in 1..Len(pIn.invoice.items) :
       pIn.invoice.items[i].quantity = "" /\ pOut.rows[i].qty = "---"
  /\ pOut.balance.whole = 1

-----------------------------------------------------------------------------
(* C17 *)

\* the reminder calls that started and have not finished
InFlight == {i \in 1..Len(tasks) : tasks[i].pc # "done"}

\* the upcoming shoots persisted as completed
CompletedIds ==
  {upcomingStore[i].id : i \in {j \in 1..Len(upcomingStore) : upcomingStore[j].completed}}

\* C17: whatever the interleaving of the Upcoming handlers (save, edit, toggle
\* complete) and their reminder calls, once every call in flight has finished no
\* pending notification is for an upcoming shoot whose completed flag is true
C17_NoReminderForCompleted ==
  InFlight = {} =>
    \A n \in pending : \A id \in CompletedIds : n.key # ShootKey(id)

-----------------------------------------------------------------------------
(* C18 *)

\* C18: at most one reminder call (schedule or cancel) for a given reminder key
\* has started and not yet finished
C18_OneCallPerKey ==
  \A i \in InFlight : \A j \in InFlight : tasks[i].key = tasks[j].key => i = j

-----------------------------------------------------------------------------
(* C19 *)

\* the callers whose call wrote and has finished
Writers == {c \in Callers : storeOps[c].pc = "done" /\ storeOps[c].wroteAt > 0}

\* the change of the call of c is in the persisted array: the saved record is
\* there, or the updated record has the updated fields
ChangePresent(c, stored) ==
  LET op == storeOps[c]
  IN \E i \in 1..Len(stored) :
       /\ stored[i].id = op.changed
       /\ \A f \in DOMAIN op.call.fields : stored[i][f] = op.call.fields[f]

\* both calls read before either wrote
BothReadFirst(a, b) ==
  /\ storeOps[a].readAt < storeOps[b].wroteAt
  /\ storeOps[b].readAt < storeOps[a].wroteAt

\* C19: of two writers of one collection, the only calls made, that both read
\* before either writes, the later writer's array is what is persisted after both and the earlier
\* writer's change is absent from it; when one wrote before the other read, both
\* changes are persisted
C19_LastWriterWins ==
  \A a \in Writers : \A b \in Writers :
    (/\ storeOps[a].call.kind = storeOps[b].call.kind
     /\ storeOps[a].wroteAt < storeOps[b].wroteAt
     /\ \A c \in Callers \ {a, b} : storeOps[c].pc = "idle") =>
      LET stored == Collection(storeOps[a].call.kind, invoicesStore, shootsStore,
                               upcomingStore)
      IN IF BothReadFirst(a, b)
         THEN /\ stored = storeOps[b].toWrite
              /\ ~ChangePresent(a, stored)
              /\ ChangePresent(b, stored)
         ELSE /\ ChangePresent(a, stored)
              /\ ChangePresent(b, stored)

\* two saves of upcoming shoots that both read before either wrote
C19_Witness ==
  /\ Writers = Callers
  /\ \A c \in Callers : storeOps[c].call.fn = "saveUpcomingShoot"
  /\ BothReadFirst(1, 2)
  /\ Len(upcomingStore) = 2

-----------------------------------------------------------------------------
(* C20 *)

\* the number the call of c in flight returns
NumberOf(c) == FormatInvoiceNumber(NextCounter(cread[c]))

\* C20: when two calls of getNextInvoiceNumber, the only ones made, both read the
\* counter before either persists its increment, both return the same number,
\* c0 + 1, and once both have persisted the stored counter is c0 + 1, not c0 + 2;
\* after two calls the two returned numbers are equal exactly when the counter
\* has advanced by one
C20_OverlappingCallsCollide ==
  /\ \A c \in Callers : \A d \in Callers \ {c} :
       (/\ Len(returned) = 0
        /\ \A e \in Callers \ {c, d} : cpc[e] = "idle"
        /\ cpc[c] # "idle" /\ cpc[d] # "idle"
        /\ cread[c] = cread[d]) =>
         /\ IsPadded4(NumberOf(c), c0 + 1)
         /\ IsPadded4(NumberOf(d), c0 + 1)
         /\ (cpc[c] = "wrote" /\ cpc[d] = "wrote") => DigitsValue(counterStore, 0) = c0 + 1
  /\ (Len(returned) = 2 /\ \A c \in Callers : cpc[c] = "idle") =>
       /\ (returned[1] = returned[2]) <=> (DigitsValue(counterStore, 0) = c0 + 1)
       /\ (returned[1] # returned[2]) <=> (DigitsValue(counterStore, 0) = c0 + 2)
       /\ (returned[1] = returned[2]) => IsPadded4(returned[1], c0 + 1)

\* two calls on a fresh store returned "0001" both, the counter is at 1
C20_Witness ==
  /\ c0 = 0
  /\ \A c \in Callers : cpc[c] = "idle"
  /\ returned = <<(<<0, 0, 0, 1>>), (<<0, 0, 0, 1>>)>>
  /\ counterStore = <<1>>

-----------------------------------------------------------------------------
(* C21 *)

\* C21: when a storage write is rejected during a screen action (save or edit of
\* a shoot, an upcoming shoot or an invoice, toggle-complete of an upcoming shoot)
\* the action raises one alert and every persisted collection is as it was before
\* the action
C21_FailedWriteLeavesStateAndAlerts ==
  (lastCall.op \in {"upcomingSave", "toggleComplete", "shootSave", "invoiceSave"}
     /\ lastCall.failed # "none") =>
    /\ lastCall.alerts = 1
    /\ persisted = lastCall.before

-----------------------------------------------------------------------------
(* C22 *)

\* the lead time stated for a reminderTiming value, in minutes
StatedOffset(timing) ==
  CASE timing = "1h" -> 60
    [] timing = "3h" -> 3 * 60
    [] timing = "1d" -> 24 * 60
    [] timing = "2d" -> 2 * 24 * 60
    [] OTHER -> 24 * 60

\* the hour of day stated for an H:MM AM/PM time
StatedHour(time) ==
  IF time.h = 12 THEN (IF time.pm THEN 12 ELSE 0)
  ELSE (IF time.pm THEN time.h + 12 ELSE time.h)

\* the instant of h:m local time on calendar day d
LocalInstant(d, h, m) == d * MinutesPerDay + h * 60 + m - tz

\* the target stated for the call: the day the date string names at the given
\* time of day (the parsed date itself for a shoot without a time), 08:00 local
\* for an invoice
StatedTarget(call) ==
  IF call.fn = "scheduleInvoiceReminder" THEN LocalInstant(call.date.d, 8, 0)
  ELSE IF call.time.k = "hm"
       THEN LocalInstant(call.date.d, StatedHour(call.time), call.time.m)
       ELSE parseDate(call.date, tz).t

\* the settings in force
CurrentSettings == getReminderSettings(storedSettings)

\* C22: every notification a schedule call registers has trigger time = target -
\* lead time (1 hour, 3 hours, 1 day, 2 days by reminderTiming, 1 day for an unknown
\* value), the target being the shoot's date at its H:MM AM/PM time (12 AM = 0,
\* 12 PM = 12, other PM hours + 12) or the invoice's event date at 08:00 local; the
\* trigger is later than the time of registration, and nothing is registered when
\* the reminders flag of the kind is off
C22_TriggerIsTargetMinusLead ==
  pFn \in {"scheduleShootReminder", "scheduleInvoiceReminder"} =>
    /\ \A n \in pending :
         /\ n.trigger = StatedTarget(pIn) - StatedOffset(CurrentSettings.reminderTiming)
         /\ n.trigger > now
    /\ (pFn = "scheduleShootReminder" /\ ~CurrentSettings.shootReminders) => pending = {}
    /\ (pFn = "scheduleInvoiceReminder" /\ ~CurrentSettings.invoiceReminders) => pending = {}

-----------------------------------------------------------------------------
(* C23 *)

RECURSIVE SumOfNumericPrices(_)
\* the sum of num(price) over the shoots
SumOfNumericPrices(shoots) ==
  IF shoots = <<>> THEN 0
  ELSE numericValue(Head(shoots).price) + SumOfNumericPrices(Tail(shoots))

\* C23: getMonthlyStats returns totalShoots = the number of shoots, totalIncome =
\* the sum of num(price), a price that is not a number counting 0, and avgPerShoot
\* = totalIncome / totalShoots, 0 for an empty list
C23_MonthlyStats ==
  pFn = "getMonthlyStats" =>
    /\ pOut.totalShoots = Len(pIn)
    /\ pOut.totalIncome = SumOfNumericPrices(pIn)
    /\ pOut.avgPerShoot.num * Len(pIn) = pOut.totalIncome * pOut.avgPerShoot.den
    /\ (Len(pIn) = 0 => pOut.avgPerShoot.num = 0)

-----------------------------------------------------------------------------
(* C24 *)

\* the logged shoots that carry what a completion of the upcoming shoot u logs
MaterializedFrom(u) ==
  LET logged == normalizeShoot(completedEntry(u))
  IN {i \in 1..Len(shootsStore) :
        \A f \in DOMAIN logged : normalizeShoot(shootsStore[i])[f] = logged[f]}

\* the upcoming shoots whose completion logs the same entry as that of u
Lookalikes(u) ==
  {j \in 1..Len(upcomingStore) : completedEntry(upcomingStore[j]) = completedEntry(u)}

\* C24: whatever the sequence of toggle-complete actions on an upcoming shoot
\* (complete, un-complete, complete again), the shoots collection holds at most
\* one entry materialized from it
C24_OneEntryPerUpcoming ==
  \A i \in 1..Len(upcomingStore) :
    Cardinality(MaterializedFrom(upcomingStore[i]))
      <= Cardinality(Lookalikes(upcomingStore[i]))

-----------------------------------------------------------------------------
(* C25 *)

\* the reminder keys of the records that were created and are stored no longer
DeletedKeys ==
  {ShootKey(id) : id \in {j \in 1..(nextId.upcoming - 1) : j \notin IdsOf(upcomingStore)}}
    \cup
  {InvoiceKey(id) : id \in {j \in 1..(nextId.invoice - 1) : j \notin IdsOf(invoicesStore)}}

\* C25: once the delete action of an invoice or an upcoming shoot has finished, no
\* notification is pending and no notification handle is persisted for the deleted
\* record
C25_NoReminderForDeleted ==
  \A key \in DeletedKeys : ~HasPending(key) /\ handles[key] = NoHandle

-----------------------------------------------------------------------------
(* C26 *)

\* the trigger time the current date, time of day and lead time of the upcoming
\* shoot u give
CurrentTrigger(u) ==
  StatedTarget([fn |-> "scheduleShootReminder", date |-> u.shootDate, time |-> u.shootTime])
    - StatedOffset(CurrentSettings.reminderTiming)

\* C26: after an edit has been saved and its reminder call has finished, every
\* notification still pending for the record has the trigger time its current date,
\* time and lead time give: none scheduled from a superseded date survives, also
\* when the new date does not parse, the new trigger time is past or the reminders
\* of the kind are off
C26_NoSupersededReminder ==
  \A i \in 1..Len(upcomingStore) : \A n \in pending :
    n.key = ShootKey(upcomingStore[i].id) =>
      n.trigger = CurrentTrigger(upcomingStore[i])

-----------------------------------------------------------------------------
(* C27 *)

\* the lists of the rendered tab that show the shoot with the given id
ListsShowing(id) ==
  {l \in {"completed", "overdue", "upcoming"} :
     \E i \in 1..Len(pOut[l]) : pOut[l][i].id = id}

\* C27: every stored upcoming shoot is shown in exactly one list of the Upcoming
\* tab: a completed one in the completed list, any other in either the overdue or
\* the upcoming list, whatever its shootDate string
C27_ShownInExactlyOneList ==
  pFn = "displayLists" =>
    \A i \in 1..Len(pIn) :
      /\ Cardinality(ListsShowing(pIn[i].id)) = 1
      /\ pIn[i].completed <=> ListsShowing(pIn[i].id) = {"completed"}

-----------------------------------------------------------------------------
(* C28 *)

\* C28: an expense added in the Summary tab while month M of year Y is selected is
\* stored with a date getExpensesByMonth(expenses, Y, M) accepts, on every day of
\* the month, for every length of the selected month and every zone offset
C28_ExpenseInSelectedMonth ==
  pFn = "handleAddExpense" =>
    getExpensesByMonth(pOut, pIn.selectedYear, pIn.selectedMonth, tz) = pOut

-----------------------------------------------------------------------------
(* C29 *)

\* the persisted collections by kind
Persisted(kind, upcoming, shoots, invoices) ==
  IF kind = "upcoming" THEN upcoming ELSE IF kind = "shoot" THEN shoots ELSE invoices

\* the persisted record of the id in a collection, Null when it has none
PersistedRecord(store, id) == findById(store, id)

\* the records, by kind and id, whose persisted fields a step changes, adds or
\* removes
RecordsChanged ==
  {r \in {"upcoming", "shoot", "invoice"} \X (1..(MaxSaves + 1)) :
     PersistedRecord(Persisted(r[1], upcomingStore, shootsStore, invoicesStore), r[2])
       # PersistedRecord(Persisted(r[1], upcomingStore', shootsStore', invoicesStore'), r[2])}

\* C29: a save, update or delete of one record leaves every field of every other
\* record of its collection, and every other collection, as persisted; only the
\* order of the records of the rewritten collection may change
C29_OtherRecordsUnchanged ==
  [][Cardinality(RecordsChanged) <= 1]_vars

-----------------------------------------------------------------------------
(* C30 *)

\* the load of the mount effect has set the state and no handler is in flight
SettingsQuiet == \A i \in 1..Len(tasks) : tasks[i].pc = "done"

\* the values the completed changes of a field of the settings gave it
CompletedValues(field) ==
  {tasks[i].value : i \in {j \in 1..Len(tasks) :
                             tasks[j].applied /\ tasks[j].field = field}}

\* C30: under every interleaving of the load on mount with the toggle and lead
\* time handlers, whenever no handler is in flight the in-memory settings equal
\* the persisted ones, and each field has the value a completed change gave it,
\* or, when none changed it, the value stored before the tab opened
C30_SettingsAgreeWhenQuiet ==
  (lastCall.op = "openSettings" /\ SettingsQuiet) =>
    /\ uiSettings = getReminderSettings(storedSettings)
    /\ \A field \in {"shootReminders", "invoiceReminders", "reminderTiming"} :
         IF CompletedValues(field) = {}
         THEN uiSettings[field] = getReminderSettings(lastCall.before)[field]
         ELSE uiSettings[field] \in CompletedValues(field)

====
